---- MODULE Spec2Model ----
(***************************************************************************)
(* Recording session orchestrator of meeting-minutes                       *)
(* (frontend/src-tauri/src/audio/recording_commands.rs) and its tray.      *)
(*                                                                         *)
(* Every Tauri command call is an async task.  A task's position (pc) is   *)
(* the .await it is suspended at, and the code between two suspension      *)
(* points is one step.  Taking the RECORDING_MANAGER mutex is a guard of   *)
(* the step that takes it; the only place that keeps the mutex across an   *)
(* .await (attempt_device_reconnect) holds it across steps.  The three     *)
(* globals IS_RECORDING, RECORDING_MANAGER and TRANSCRIPTION_TASK are the  *)
(* shared state; a RecordingManager is identified by the session id it was *)
(* created for.  The RecordingManager, the capture streams and the         *)
(* transcription worker pool are collaborators whose code is outside the   *)
(* two files; they are modelled from the specification's contracts.        *)
(***************************************************************************)
EXTENDS Integers, Sequences, FiniteSets, TLC

\* ------------------------------------------------------------- bounds
MaxSessions == 2
MaxChunks == 1
MaxProgressTicks == 1
MaxTime == 20
MaxDisconnects == 2
MaxListChanges == 1
MaxDeviceSessions == 1
MaxPipelineChunks == 2

\* ------------------------------------------------------------- callers
StartCalls == {"a1", "a2"}
StopCalls == {"z1", "z2"}
ReconnectCalls == {"r1"}

Sids == 1..MaxSessions
None == 0
Null == -1
Free == "free"

VARIABLES
    IS_RECORDING,        \* AtomicBool
    RECORDING_MANAGER,   \* Option<RecordingManager>: None or the session id
    TRANSCRIPTION_TASK,  \* Option<JoinHandle>: None or the session id of the task
    lock,                \* holder of the RECORDING_MANAGER mutex, or Free
    nextSid,             \* session id the next RecordingManager::new() gets
    now,                 \* integer clock
    session,             \* per session id: state of that RecordingManager
    worker,              \* per session id: state of its transcription task
    listeners,           \* number of registered transcript-update listeners
    SPEECH_DETECTED_EMITTED, \* latch of the transcription workers: speech was reported
    sessionOpen,         \* history: a start returned Ok and no stop completed since
    startPc,             \* start calls: position
    stopPc,              \* stop calls: position
    stopMgr,             \* stop calls: local manager_for_cleanup
    stopTask,            \* stop calls: local transcription_task
    progressTask,        \* stop calls: the spawned periodic progress task
    shutdownLog,         \* stop calls: notifications emitted by the call so far
    stopWarn,            \* stop calls: failures the call has only logged so far
    reconnectPc,         \* attempt_device_reconnect calls: position
    reconnectArg,        \* attempt_device_reconnect calls: device_name, monitor_type
    trayMenu,            \* the menu the tray icon shows
    trayTasks,           \* tray requests whose command call has not returned yet
    trayUpdatePending,   \* a task spawned by update_tray_menu has not run yet
    resp                 \* response of the call that returned last

vars == <<IS_RECORDING, RECORDING_MANAGER, TRANSCRIPTION_TASK, lock, nextSid, now,
          session, worker, listeners, SPEECH_DETECTED_EMITTED, sessionOpen, startPc,
          stopPc, stopMgr, stopTask, progressTask, shutdownLog, stopWarn,
          reconnectPc, reconnectArg, trayMenu, trayTasks, trayUpdatePending, resp>>

globals == <<IS_RECORDING, RECORDING_MANAGER, TRANSCRIPTION_TASK>>
stopVars == <<stopPc, stopMgr, stopTask, progressTask, shutdownLog, stopWarn>>

reconnectVars == <<reconnectPc, reconnectArg>>

trayVars == <<trayMenu, trayTasks, trayUpdatePending>>

\* ------------------------------------------------------------- devices
\* The two device roles (enum DeviceMonitorType) and the strings the commands
\* exchange with the caller for them.
Microphone == "DeviceMonitorType::Microphone"
SystemAudio == "DeviceMonitorType::SystemAudio"
DeviceMonitorType == {Microphone, SystemAudio}

DeviceNames == {"mic0", "sys0"}
DeviceTypeStrings == {"Microphone", "SystemAudio", "Speaker"}

DefaultDevice(r) == IF r = Microphone THEN "mic0" ELSE "sys0"

\* format!("{:?}", device_type)
DebugFormat(r) == IF r = Microphone THEN "Microphone" ELSE "SystemAudio"

NoReconnectArg == [device_name |-> "", monitor_type |-> ""]

\* ------------------------------------------------------------- helpers
Range(s) == {s[i] : i \in 1..Len(s)}

Count(s, x) == Cardinality({i \in 1..Len(s) : s[i] = x})

\* A manager no start has created yet.
NoSessionYet ==
    [started |-> FALSE, halted |-> FALSE, dropped |-> FALSE, paused |-> FALSE,
     startedAt |-> 0, pauseStartedAt |-> Null, totalPause |-> 0,
     openIntervals |-> 0, captured |-> 0, history |-> <<>>,
     binding |-> [r \in DeviceMonitorType |-> ""],
     connectivity |-> [r \in DeviceMonitorType |-> "Connected"],
     capturing |-> [r \in DeviceMonitorType |-> FALSE],
     streamStarts |-> [r \in DeviceMonitorType |-> 0],
     disconnects |-> 0, listChanges |-> 0,
     deviceEvents |-> <<>>, polled |-> 0,
     disconnected_device |-> {}, is_reconnecting |-> FALSE,
     meeting_name |-> {}, meeting_folder |-> {},
     auto_save |-> TRUE, preferences_warning |-> FALSE]

\* RecordingManager::new(), set_meeting_name(Some(..)) (lines 115-124) and a
\* successful start_recording at time t: both roles are bound to their default
\* device and their streams run, the meeting folder is initialized.
NewSession(t) ==
    [NoSessionYet EXCEPT !.started = TRUE, !.startedAt = t,
                         !.binding = [r \in DeviceMonitorType |-> DefaultDevice(r)],
                         !.capturing = [r \in DeviceMonitorType |-> TRUE],
                         !.streamStarts = [r \in DeviceMonitorType |-> 1],
                         !.meeting_name = {"Meeting"},
                         !.meeting_folder = {"meetings/Meeting"}]

NoWorker == [status |-> "none", processed |-> {}]

\* What a call returned and the notifications it emitted.
Response(op, res, events) == [op |-> op, res |-> res, events |-> events]

\* Dropping a RecordingManager value frees its state and releases its streams
\* and its channel sender; the chunks already in the channel stay there.
DroppedSession(m) ==
    [NoSessionYet EXCEPT !.started = TRUE, !.dropped = TRUE, !.halted = m.halted,
                         !.captured = m.captured]

DropManager(sess, m) ==
    IF m = None THEN sess ELSE [sess EXCEPT ![m] = DroppedSession(@)]

\* Once the manager of a session is dropped and its transcription task has
\* ended, nothing of the session is left but the fact that the task has ended.
Over(sess, wrk, s) == sess[s].dropped /\ wrk[s].status # "running"

FreeSessions(sess, wrk) ==
    [s \in Sids |-> IF Over(sess, wrk, s) THEN [sess[s] EXCEPT !.captured = 0]
                                          ELSE sess[s]]

FreeWorkers(sess, wrk) ==
    [s \in Sids |-> IF Over(sess, wrk, s) THEN [status |-> "ended", processed |-> {}]
                                          ELSE wrk[s]]

\* is_recording, lines 757-759.
is_recording == IS_RECORDING

\* is_recording_paused, lines 840-847.
is_recording_paused ==
    IF RECORDING_MANAGER # None THEN session[RECORDING_MANAGER].paused ELSE FALSE

\* ------------------------------------------------------------- tray
\* tray.rs lines 8-16.
RecordingState ==
    {"Stopped", "Starting", "Recording", "Pausing", "Paused", "Resuming", "Stopping"}

\* A menu entry: its id, or its label where the code gives it no id, and
\* whether it can be activated.
MenuItem(id, enabled) == [id |-> id, enabled |-> enabled]

\* A menu that offers pause and stop in every state of an active recording.
build_menu_pause_always(state) ==
    (IF state = "Stopped" THEN <<MenuItem("toggle_recording", TRUE)>>
     ELSE IF state = "Starting" THEN <<MenuItem("Starting Recording...", FALSE)>>
     ELSE IF state = "Stopping" THEN <<MenuItem("Stopping...", FALSE)>>
     ELSE <<MenuItem("pause_recording", TRUE), MenuItem("stop_recording", TRUE)>>)
    \o <<MenuItem("open_window", TRUE), MenuItem("settings", TRUE), MenuItem("quit", TRUE)>>

\* build_menu, tray.rs lines 276-341 (the separators are left out).
build_menu(state) ==
    (CASE state = "Stopped" -> <<MenuItem("toggle_recording", TRUE)>>
       [] state = "Starting" -> <<MenuItem("Starting Recording...", FALSE)>>
       [] state = "Recording" ->
            <<MenuItem("pause_recording", TRUE), MenuItem("stop_recording", TRUE)>>
       [] state = "Pausing" ->
            <<MenuItem("Pausing...", FALSE), MenuItem("stop_recording", TRUE)>>
       [] state = "Paused" ->
            <<MenuItem("resume_recording", TRUE), MenuItem("stop_recording", TRUE)>>
       [] state = "Resuming" ->
            <<MenuItem("Resuming...", FALSE), MenuItem("stop_recording", TRUE)>>
       [] state = "Stopping" -> <<MenuItem("Stopping...", FALSE)>>)
    \o <<MenuItem("open_window", TRUE), MenuItem("settings", TRUE), MenuItem("quit", TRUE)>>

\* The ids a click on the menu can deliver to handle_menu_event.
EnabledItems(menu) == {menu[i].id : i \in {j \in DOMAIN menu : menu[j].enabled}}

\* get_current_recording_state, tray.rs lines 232-256.
get_current_recording_state ==
    IF ~is_recording THEN "Stopped"
    ELSE IF is_recording_paused THEN "Paused"
    ELSE "Recording"

\* The tray side of a command call that returns.  A request of that kind is
\* no longer outstanding; the tray handler that awaited the call rebuilds the
\* menu from the state it finds if the call failed (tray.rs lines 100-104,
\* 125-128, 142-146, 199-203; a start is called by the front end and has no
\* such handler); `scheduled` says that the command called update_tray_menu
\* (recording_commands.rs lines 197, 367, 750, 795, 829).
TrayReturn(kind, ok, scheduled) ==
    /\ trayTasks' = trayTasks \ {kind}
    /\ trayMenu' = IF kind \in trayTasks /\ kind # "start" /\ ~ok
                   THEN build_menu(get_current_recording_state')
                   ELSE trayMenu
    /\ trayUpdatePending' = (trayUpdatePending \/ scheduled)

\* create_tray (tray.rs lines 18-33) has built the menu for Stopped and called
\* update_tray_menu.
Init ==
    /\ IS_RECORDING = FALSE
    /\ RECORDING_MANAGER = None
    /\ TRANSCRIPTION_TASK = None
    /\ lock = Free
    /\ nextSid = 1
    /\ now = 0
    /\ session = [s \in Sids |-> NoSessionYet]
    /\ worker = [s \in Sids |-> NoWorker]
    /\ listeners = 0
    /\ SPEECH_DETECTED_EMITTED = FALSE
    /\ sessionOpen = FALSE
    /\ startPc = [c \in StartCalls |-> "idle"]
    /\ stopPc = [c \in StopCalls |-> "idle"]
    /\ stopMgr = [c \in StopCalls |-> None]
    /\ stopTask = [c \in StopCalls |-> None]
    /\ progressTask = [c \in StopCalls |-> "none"]
    /\ shutdownLog = [c \in StopCalls |-> <<>>]
    /\ stopWarn = [c \in StopCalls |-> {}]
    /\ reconnectPc = [c \in ReconnectCalls |-> "idle"]
    /\ reconnectArg = [c \in ReconnectCalls |-> NoReconnectArg]
    /\ trayMenu = build_menu("Stopped")
    /\ trayTasks = {}
    /\ trayUpdatePending = TRUE
    /\ resp = Response("none", "none", <<>>)

\* ------------------------------------------------------------- start
\* A start that does not consult IS_RECORDING.
start_recording_check_unguarded(c) ==
    /\ startPc[c] = "idle"
    /\ startPc' = [startPc EXCEPT ![c] = "init"]
    /\ UNCHANGED <<globals, lock, nextSid, now, session, worker, listeners, SPEECH_DETECTED_EMITTED, trayVars, sessionOpen,
                   stopVars, reconnectVars, resp>>

\* start_recording_with_meeting_name lines 73-78 and
\* start_recording_with_devices_and_meeting lines 225-230: the IS_RECORDING
\* check; a passing call suspends at validate_transcription_model_ready.
start_recording_check(c) ==
    /\ startPc[c] = "idle"
    /\ IF IS_RECORDING
       THEN /\ resp' = Response("start", "AlreadyActive", <<>>)
            /\ UNCHANGED startPc
       ELSE /\ startPc' = [startPc EXCEPT ![c] = "init"]
            /\ UNCHANGED resp
    /\ UNCHANGED <<globals, lock, nextSid, now, session, worker, listeners, SPEECH_DETECTED_EMITTED, sessionOpen,
                   stopVars, reconnectVars>>
    /\ IF IS_RECORDING THEN TrayReturn("start", FALSE, FALSE) ELSE UNCHANGED trayVars

\* The transcription-error notification with its "actionable" payload field,
\* lines 86-90.
TranscriptionError(actionable) ==
    IF actionable THEN "transcription-error{actionable:true}"
                  ELSE "transcription-error{actionable:false}"

\* A failed readiness check found only after the recording flag was raised.
start_recording_model_not_ready_flag_raised(c) ==
    /\ startPc[c] = "init"
    /\ startPc' = [startPc EXCEPT ![c] = "idle"]
    /\ IS_RECORDING' = TRUE
    /\ resp' = Response("start", "ModelNotReady", <<TranscriptionError(TRUE)>>)
    /\ UNCHANGED <<RECORDING_MANAGER, TRANSCRIPTION_TASK, lock, nextSid, now, session,
                   worker, listeners, SPEECH_DETECTED_EMITTED, sessionOpen, stopVars, reconnectVars>>
    /\ TrayReturn("start", FALSE, FALSE)

\* lines 80-93 / 232-245: validate_transcription_model_ready fails; the
\* actionable transcription-error is emitted and the error returned.
start_recording_model_not_ready(c) ==
    /\ startPc[c] = "init"
    /\ startPc' = [startPc EXCEPT ![c] = "idle"]
    /\ resp' = Response("start", "ModelNotReady", <<TranscriptionError(TRUE)>>)
    /\ UNCHANGED <<globals, lock, nextSid, now, session, worker, listeners, SPEECH_DETECTED_EMITTED, sessionOpen,
                   stopVars, reconnectVars>>
    /\ TrayReturn("start", FALSE, FALSE)

\* A capture start that fails after the manager was stored.
start_recording_capture_fails_manager_stored(c) ==
    /\ startPc[c] = "init"
    /\ nextSid <= MaxSessions
    /\ startPc' = [startPc EXCEPT ![c] = "idle"]
    /\ RECORDING_MANAGER' = nextSid
    /\ nextSid' = nextSid + 1
    /\ session' = [DropManager(session, RECORDING_MANAGER) EXCEPT ![nextSid] = NewSession(now)]
    /\ resp' = Response("start", "CaptureStartFailure", <<>>)
    /\ UNCHANGED <<IS_RECORDING, TRANSCRIPTION_TASK, lock, now, worker, listeners, SPEECH_DETECTED_EMITTED,
                   sessionOpen, stopVars, reconnectVars>>
    /\ TrayReturn("start", FALSE, FALSE)

\* lines 132-136 / 248-263, 299-303: a device name does not parse or the capture
\* start fails; `?` returns the error and the local manager is dropped.
start_recording_capture_fails(c) ==
    /\ startPc[c] = "init"
    /\ startPc' = [startPc EXCEPT ![c] = "idle"]
    /\ resp' = Response("start", "CaptureStartFailure", <<>>)
    /\ UNCHANGED <<globals, lock, nextSid, now, session, worker, listeners, SPEECH_DETECTED_EMITTED, sessionOpen,
                   stopVars, reconnectVars>>
    /\ TrayReturn("start", FALSE, FALSE)

\* load_recording_preferences, lines 104-113 / 272-281: what the call returned,
\* Err as the empty set, Ok(prefs) as the set of the preferences record.
LoadResults == {{}} \cup {{[auto_save |-> b]} : b \in BOOLEAN}

\* Lines 104-113 / 272-281: the auto_save setting a start goes on with.
auto_save_setting(loaded) ==
    IF loaded = {} THEN TRUE ELSE (CHOOSE prefs \in loaded : TRUE).auto_save

\* The manager of NewSession, started with the auto_save setting of `loaded`;
\* preferences_warning records the warning of line 110 / 278.
NewSessionWithPreferences(t, loaded) ==
    [NewSession(t) EXCEPT !.auto_save = auto_save_setting(loaded),
                          !.preferences_warning = (loaded = {})]

\* A start that returns the error of load_recording_preferences to its caller.
start_recording_commit_preferences_required(c, emitOk, loaded) ==
    IF loaded = {}
    THEN /\ startPc[c] = "init"
         /\ startPc' = [startPc EXCEPT ![c] = "idle"]
         /\ resp' = Response("start", "PreferencesFailed", <<>>)
         /\ UNCHANGED <<globals, lock, nextSid, now, session, worker, listeners,
                        SPEECH_DETECTED_EMITTED, sessionOpen, stopVars, reconnectVars>>
         /\ TrayReturn("start", FALSE, FALSE)
    ELSE
           /\ startPc[c] = "init"
           /\ nextSid <= MaxSessions
           /\ lock = Free
           /\ LET se == [DropManager(session, RECORDING_MANAGER)
                            EXCEPT ![nextSid] = NewSessionWithPreferences(now, loaded)]
                  w == [worker EXCEPT ![nextSid] = [status |-> "running", processed |-> {}]]
              IN /\ session' = FreeSessions(se, w)
                 /\ worker' = FreeWorkers(se, w)
           /\ RECORDING_MANAGER' = nextSid
           /\ IS_RECORDING' = TRUE
           /\ TRANSCRIPTION_TASK' = nextSid
           /\ listeners' = listeners + 1
           /\ SPEECH_DETECTED_EMITTED' = FALSE
           /\ sessionOpen' = (emitOk \/ sessionOpen)
           /\ nextSid' = nextSid + 1
           /\ resp' = IF emitOk THEN Response("start", "Ok", <<"recording-started">>)
                                ELSE Response("start", "EmitError", <<>>)
           /\ startPc' = [startPc EXCEPT ![c] = "idle"]
           /\ UNCHANGED <<lock, now, stopVars, reconnectVars>>
           /\ TrayReturn("start", emitOk, emitOk)

\* lines 99-201 / 268-371, after manager.start_recording(..).await returned Ok:
\* the manager is stored (the one stored before is dropped), IS_RECORDING is set,
\* the speech-detected latch is reset (line 147 / 314),
\* the transcription task is started and its handle stored, the listener is
\* registered (lines 159-187 / 326-354: the spawned task only calls app.listen
\* and is taken to have run before the worker pool's first result),
\* recording-started is emitted (`?` on its error).
start_recording_commit_with_preferences(c, emitOk, loaded) ==
    /\ startPc[c] = "init"
    /\ nextSid <= MaxSessions
    /\ lock = Free
    /\ LET se == [DropManager(session, RECORDING_MANAGER)
                     EXCEPT ![nextSid] = NewSessionWithPreferences(now, loaded)]
           w == [worker EXCEPT ![nextSid] = [status |-> "running", processed |-> {}]]
       IN /\ session' = FreeSessions(se, w)
          /\ worker' = FreeWorkers(se, w)
    /\ RECORDING_MANAGER' = nextSid
    /\ IS_RECORDING' = TRUE
    /\ TRANSCRIPTION_TASK' = nextSid
    /\ listeners' = listeners + 1
    /\ SPEECH_DETECTED_EMITTED' = FALSE
    /\ sessionOpen' = (emitOk \/ sessionOpen)
    /\ nextSid' = nextSid + 1
    /\ resp' = IF emitOk THEN Response("start", "Ok", <<"recording-started">>)
                         ELSE Response("start", "EmitError", <<>>)
    /\ startPc' = [startPc EXCEPT ![c] = "idle"]
    /\ UNCHANGED <<lock, now, stopVars, reconnectVars>>
    /\ TrayReturn("start", emitOk, emitOk)

\* The same with preferences that load and have auto_save set.
start_recording_commit(c, emitOk) ==
    start_recording_commit_with_preferences(c, emitOk, {[auto_save |-> TRUE]})

\* ------------------------------------------------------------- capture and workers
\* A capture stream hands one more chunk to the hand-off channel; chunk k of a
\* session carries sequence id k.  Capture is suspended while paused and ends
\* with stop_streams_and_force_flush or with the manager being dropped.
capture_chunk_upto(s, max) ==
    /\ session[s].started
    /\ ~session[s].halted /\ ~session[s].dropped /\ ~session[s].paused
    /\ session[s].captured < max
    /\ session' = [session EXCEPT ![s].captured = @ + 1]
    /\ UNCHANGED <<globals, lock, nextSid, now, worker, listeners, SPEECH_DETECTED_EMITTED, trayVars, sessionOpen, startPc,
                   stopVars, reconnectVars, resp>>

capture_chunk(s) == capture_chunk_upto(s, MaxChunks)

\* TranscriptSegment built by the listener, lines 166-175: id = "seg_" + sequence_id.
TranscriptSegment(seq) == [id |-> <<"seg_", seq>>, sequence_id |-> seq]

\* RecordingManager::add_transcript_segment: idempotent append keyed by sequence id.
add_transcript_segment(history, segment) ==
    IF \E i \in 1..Len(history) : history[i].sequence_id = segment.sequence_id
    THEN history
    ELSE Append(history, segment)

\* A listener that keeps the history sorted by sequence id.
transcript_update_listener_sorted(sess, seq) ==
    IF RECORDING_MANAGER = None
    THEN sess
    ELSE LET h == sess[RECORDING_MANAGER].history
             before == SelectSeq(h, LAMBDA x : x.sequence_id < seq)
             after == SelectSeq(h, LAMBDA x : x.sequence_id > seq)
         IN [sess EXCEPT ![RECORDING_MANAGER].history =
                             before \o <<TranscriptSegment(seq)>> \o after]

\* The transcript-update listener, lines 162-184 / 329-351: the segment goes to
\* the manager RECORDING_MANAGER holds at that moment, if it holds one.
transcript_update_listener(sess, seq) ==
    IF RECORDING_MANAGER = None
    THEN sess
    ELSE [sess EXCEPT ![RECORDING_MANAGER].history =
                          add_transcript_segment(@, TranscriptSegment(seq))]

\* A worker of the pool finishes chunk k of session s (in any order) and emits
\* its TranscriptUpdate; every registered listener runs and locks the manager.
\* Every chunk is taken to contain speech: the worker reports it unless the
\* latch is set, and sets the latch.
transcribe_chunk(s, k) ==
    /\ worker[s].status = "running"
    /\ k \in (0..(session[s].captured - 1)) \ worker[s].processed
    /\ listeners > 0 => lock = Free
    /\ worker' = [worker EXCEPT ![s].processed = @ \cup {k}]
    /\ session' = IF listeners > 0 THEN transcript_update_listener(session, k)
                                   ELSE session
    /\ SPEECH_DETECTED_EMITTED' = TRUE
    /\ UNCHANGED <<globals, lock, nextSid, now, listeners, trayVars, sessionOpen, startPc,
                   stopVars, reconnectVars, resp>>

AllProcessed(s) == worker[s].processed = 0..(session[s].captured - 1)

\* The transcription task ends once the channel is closed and drained.
worker_finish(s) ==
    /\ worker[s].status = "running"
    /\ session[s].halted \/ session[s].dropped
    /\ AllProcessed(s)
    /\ LET w == [worker EXCEPT ![s].status = "done"] IN
         /\ worker' = FreeWorkers(session, w)
         /\ session' = FreeSessions(session, w)
    /\ UNCHANGED <<globals, lock, nextSid, now, listeners, SPEECH_DETECTED_EMITTED, trayVars, sessionOpen, startPc,
                   stopVars, reconnectVars, resp>>

\* The transcription task panics: awaiting its handle yields Err (lines 476-479).
worker_panic(s) ==
    /\ worker[s].status = "running"
    /\ LET w == [worker EXCEPT ![s].status = "panicked"] IN
         /\ worker' = FreeWorkers(session, w)
         /\ session' = FreeSessions(session, w)
    /\ UNCHANGED <<globals, lock, nextSid, now, listeners, SPEECH_DETECTED_EMITTED, trayVars, sessionOpen, startPc,
                   stopVars, reconnectVars, resp>>

Finished(s) == worker[s].status \in {"done", "panicked", "ended"}

\* ------------------------------------------------------------- stop
\* Lines 429-496 up to the next suspension point: processing_transcripts is
\* emitted and TRANSCRIPTION_TASK taken; with a handle the progress task is
\* spawned and the call awaits the handle, without one unloading_model follows.
StopTakeTask(c, log) ==
    /\ stopTask' = [stopTask EXCEPT ![c] = TRANSCRIPTION_TASK]
    /\ TRANSCRIPTION_TASK' = None
    /\ IF TRANSCRIPTION_TASK # None
       THEN /\ progressTask' = [progressTask EXCEPT ![c] = "running"]
            /\ shutdownLog' = [shutdownLog EXCEPT ![c] =
                                   log \o <<"processing_transcripts">>]
            /\ stopPc' = [stopPc EXCEPT ![c] = "drain"]
       ELSE /\ UNCHANGED progressTask
            /\ shutdownLog' = [shutdownLog EXCEPT ![c] =
                                   log \o <<"processing_transcripts", "unloading_model">>]
            /\ stopPc' = [stopPc EXCEPT ![c] = "unload"]

\* The response of a stop call that ran to its end, with the failures it logged.
StopResponse(res, events, warned, stopped) ==
    [op |-> "stop", res |-> res, events |-> events, warned |-> warned, stopped |-> stopped]

\* Lines 680-720 and 738-747: the payload of recording-stopped.  The folder
\* and the name are read from the call's manager, both None without one, and
\* the payload carries both only if both are present.
RecordingStopped(m) ==
    LET meeting_folder == IF m = None THEN {} ELSE session[m].meeting_folder
        meeting_name == IF m = None THEN {} ELSE session[m].meeting_name
    IN IF meeting_folder # {} /\ meeting_name # {}
       THEN [folder_path |-> meeting_folder, meeting_name |-> meeting_name]
       ELSE [folder_path |-> {}, meeting_name |-> {}]

\* Lines 706-753: IS_RECORDING.store(false), 'complete', recording-stopped
\* (`?` on its error), return.
StopFinish(c, log, emitOk, warned) ==
    /\ IS_RECORDING' = FALSE
    /\ shutdownLog' = [shutdownLog EXCEPT ![c] = <<>>]
    /\ stopWarn' = [stopWarn EXCEPT ![c] = {}]
    /\ sessionOpen' = FALSE
    /\ resp' = IF emitOk
               THEN StopResponse("Ok", log \o <<"complete", "recording-stopped">>, warned,
                                 {RecordingStopped(stopMgr[c])})
               ELSE StopResponse("EmitError", log \o <<"complete">>, warned, {})
    /\ stopPc' = [stopPc EXCEPT ![c] = "idle"]
    /\ stopMgr' = [stopMgr EXCEPT ![c] = None]
    /\ stopTask' = [stopTask EXCEPT ![c] = None]
    /\ TrayReturn("stop", emitOk, emitOk)

\* A stop that does not consult IS_RECORDING: the manager is taken and the
\* shutdown sequence begun in every state.
stop_recording_begin_unchecked(c) ==
    /\ stopPc[c] = "idle"
    /\ lock = Free
    /\ stopMgr' = [stopMgr EXCEPT ![c] = RECORDING_MANAGER]
    /\ RECORDING_MANAGER' = None
    /\ IF RECORDING_MANAGER # None
       THEN /\ stopPc' = [stopPc EXCEPT ![c] = "stop_streams"]
            /\ shutdownLog' = [shutdownLog EXCEPT ![c] = <<"stopping_audio">>]
            /\ stopTask' = [stopTask EXCEPT ![c] = None]
            /\ UNCHANGED <<TRANSCRIPTION_TASK, progressTask>>
       ELSE StopTakeTask(c, <<"stopping_audio">>)
    /\ UNCHANGED <<IS_RECORDING, resp>>
    /\ UNCHANGED <<lock, nextSid, now, session, worker, listeners, SPEECH_DETECTED_EMITTED, trayVars, sessionOpen, startPc,
                   stopWarn, reconnectVars>>

\* Lines 383-415: the IS_RECORDING check, stopping_audio, the manager is taken
\* out of RECORDING_MANAGER; with a manager the call awaits
\* stop_streams_and_force_flush, without one it goes on to line 429.
stop_recording_begin(c) ==
    /\ stopPc[c] = "idle"
    /\ IF ~IS_RECORDING
       THEN /\ resp' = Response("stop", "Ok", <<>>)
            /\ UNCHANGED <<globals, stopPc, stopMgr, stopTask, progressTask, shutdownLog>>
       ELSE /\ lock = Free
            /\ stopMgr' = [stopMgr EXCEPT ![c] = RECORDING_MANAGER]
            /\ RECORDING_MANAGER' = None
            /\ IF RECORDING_MANAGER # None
               THEN /\ stopPc' = [stopPc EXCEPT ![c] = "stop_streams"]
                    /\ shutdownLog' = [shutdownLog EXCEPT ![c] = <<"stopping_audio">>]
                    /\ stopTask' = [stopTask EXCEPT ![c] = None]
                    /\ UNCHANGED <<TRANSCRIPTION_TASK, progressTask>>
               ELSE StopTakeTask(c, <<"stopping_audio">>)
            /\ UNCHANGED <<IS_RECORDING, resp>>
    /\ UNCHANGED <<lock, nextSid, now, session, worker, listeners, SPEECH_DETECTED_EMITTED, sessionOpen, startPc,
                   stopWarn, reconnectVars>>
    /\ IF ~IS_RECORDING THEN TrayReturn("stop", TRUE, FALSE) ELSE UNCHANGED trayVars

\* Lines 408-443: stop_streams_and_force_flush returned Ok; the streams are
\* halted and the buffered tail, if any, was flushed as a last chunk.
stop_recording_streams_stopped(c, flush) ==
    /\ stopPc[c] = "stop_streams"
    /\ flush => session[stopMgr[c]].captured < MaxChunks
    /\ session' = [session EXCEPT ![stopMgr[c]].halted = TRUE,
                                  ![stopMgr[c]].captured = IF flush THEN @ + 1 ELSE @]
    /\ StopTakeTask(c, shutdownLog[c])
    /\ UNCHANGED <<IS_RECORDING, RECORDING_MANAGER, lock, nextSid, now, worker,
                   listeners, SPEECH_DETECTED_EMITTED, trayVars, sessionOpen, startPc, stopMgr, stopWarn, reconnectVars, resp>>

\* Lines 423-426: stop_streams_and_force_flush returned Err; the call returns
\* the error and its local manager is dropped.
stop_recording_streams_failed(c) ==
    /\ stopPc[c] = "stop_streams"
    /\ LET se == DropManager(session, stopMgr[c]) IN
         /\ session' = FreeSessions(se, worker)
         /\ worker' = FreeWorkers(se, worker)
    /\ stopMgr' = [stopMgr EXCEPT ![c] = None]
    /\ stopPc' = [stopPc EXCEPT ![c] = "idle"]
    /\ resp' = Response("stop", "StopStreamsFailed", shutdownLog[c])
    /\ shutdownLog' = [shutdownLog EXCEPT ![c] = <<>>]
    /\ UNCHANGED <<globals, lock, nextSid, now, listeners, SPEECH_DETECTED_EMITTED, sessionOpen, startPc,
                   stopTask, progressTask, stopWarn, reconnectVars>>
    /\ TrayReturn("stop", FALSE, FALSE)

\* Lines 450-469: one round of the periodic progress task.
progress_tick(c) ==
    /\ progressTask[c] = "running"
    /\ Count(shutdownLog[c], "processing_transcripts") <= MaxProgressTicks
    /\ shutdownLog' = [shutdownLog EXCEPT ![c] = Append(@, "processing_transcripts")]
    /\ UNCHANGED <<globals, lock, nextSid, now, session, worker, listeners, SPEECH_DETECTED_EMITTED, trayVars, sessionOpen, startPc,
                   stopPc, stopMgr, stopTask, progressTask, stopWarn, reconnectVars, resp>>

\* A drain end that aborts the progress task only when the join succeeded.
stop_recording_drained_abort_on_ok(c) ==
    /\ stopPc[c] = "drain"
    /\ worker[stopTask[c]].status \in {"done", "panicked", "ended"}
    /\ progressTask' = [progressTask EXCEPT ![c] =
                            IF worker[stopTask[c]].status = "panicked" THEN @ ELSE "none"]
    /\ shutdownLog' = [shutdownLog EXCEPT ![c] = Append(@, "unloading_model")]
    /\ stopPc' = [stopPc EXCEPT ![c] = "unload"]
    /\ stopWarn' = [stopWarn EXCEPT ![c] =
                        IF worker[stopTask[c]].status = "panicked" THEN @ \cup {"join"} ELSE @]
    /\ UNCHANGED <<globals, lock, nextSid, now, session, worker, listeners, SPEECH_DETECTED_EMITTED, trayVars, sessionOpen, startPc,
                   stopMgr, stopTask, reconnectVars, resp>>

\* A drain end that leaves the periodic progress task running.
stop_recording_drained_no_abort(c) ==
    /\ stopPc[c] = "drain"
    /\ worker[stopTask[c]].status \in {"done", "panicked", "ended"}
    /\ shutdownLog' = [shutdownLog EXCEPT ![c] = Append(@, "unloading_model")]
    /\ stopPc' = [stopPc EXCEPT ![c] = "unload"]
    /\ stopWarn' = [stopWarn EXCEPT ![c] =
                        IF worker[stopTask[c]].status = "panicked" THEN @ \cup {"join"} ELSE @]
    /\ UNCHANGED <<globals, lock, nextSid, now, session, worker, listeners, SPEECH_DETECTED_EMITTED, trayVars, sessionOpen, startPc,
                   stopMgr, stopTask, progressTask, reconnectVars, resp>>

\* Lines 471-496: task_handle.await resolved (Ok or Err), the progress task is
\* aborted, unloading_model is emitted.
stop_recording_drained(c) ==
    /\ stopPc[c] = "drain"
    /\ Finished(stopTask[c])
    /\ progressTask' = [progressTask EXCEPT ![c] = "none"]
    /\ shutdownLog' = [shutdownLog EXCEPT ![c] = Append(@, "unloading_model")]
    /\ stopPc' = [stopPc EXCEPT ![c] = "unload"]
    /\ stopWarn' = [stopWarn EXCEPT ![c] =
                        IF worker[stopTask[c]].status = "panicked" THEN @ \cup {"join"} ELSE @]
    /\ UNCHANGED <<globals, lock, nextSid, now, session, worker, listeners, SPEECH_DETECTED_EMITTED, trayVars, sessionOpen, startPc,
                   stopMgr, stopTask, reconnectVars, resp>>

\* Lines 498-704: model unload and analytics returned (`failed` names the ones
\* that failed; their failures are only logged), finalizing is emitted; with a manager the call awaits
\* save_recording_only, without one it runs on to the end.
stop_recording_unloaded(c, emitOk, failed) ==
    /\ stopPc[c] = "unload"
    /\ failed \subseteq {"unload", "analytics"}
    /\ IF stopMgr[c] # None
       THEN /\ stopWarn' = [stopWarn EXCEPT ![c] = @ \cup failed]
            /\ shutdownLog' = [shutdownLog EXCEPT ![c] = Append(@, "finalizing")]
            /\ stopPc' = [stopPc EXCEPT ![c] = "save"]
            /\ UNCHANGED <<IS_RECORDING, resp, stopMgr, stopTask, sessionOpen, trayVars>>
       ELSE /\ "analytics" \notin failed
            /\ StopFinish(c, Append(shutdownLog[c], "finalizing"), emitOk,
                          stopWarn[c] \cup failed)
    /\ UNCHANGED <<RECORDING_MANAGER, TRANSCRIPTION_TASK, lock, nextSid, now, session,
                   worker, listeners, SPEECH_DETECTED_EMITTED, startPc, progressTask, reconnectVars>>

\* A save whose error is returned to the caller with `?`.
stop_recording_saved_error_returned(c, emitOk, failed) ==
    /\ stopPc[c] = "save"
    /\ failed \subseteq {"save"}
    /\ LET se == DropManager(session, stopMgr[c]) IN
         /\ session' = FreeSessions(se, worker)
         /\ worker' = FreeWorkers(se, worker)
    /\ UNCHANGED <<RECORDING_MANAGER, TRANSCRIPTION_TASK, lock, nextSid, now,
                   listeners, SPEECH_DETECTED_EMITTED, startPc, progressTask, reconnectVars>>
    /\ IF failed = {}
       THEN StopFinish(c, shutdownLog[c], emitOk, stopWarn[c])
       ELSE /\ resp' = Response("stop", "SaveFailed", shutdownLog[c])
            /\ stopPc' = [stopPc EXCEPT ![c] = "idle"]
            /\ stopMgr' = [stopMgr EXCEPT ![c] = None]
            /\ stopTask' = [stopTask EXCEPT ![c] = None]
            /\ shutdownLog' = [shutdownLog EXCEPT ![c] = <<>>]
            /\ stopWarn' = [stopWarn EXCEPT ![c] = {}]
            /\ UNCHANGED <<IS_RECORDING, sessionOpen>>
            /\ TrayReturn("stop", FALSE, FALSE)

\* Lines 687-753: save_recording_only returned (`failed` tells whether with an
\* error, which is only logged); the
\* manager is dropped at the end of the block.
stop_recording_saved(c, emitOk, failed) ==
    /\ stopPc[c] = "save"
    /\ LET se == DropManager(session, stopMgr[c]) IN
         /\ session' = FreeSessions(se, worker)
         /\ worker' = FreeWorkers(se, worker)
    /\ failed \subseteq {"save"}
    /\ StopFinish(c, shutdownLog[c], emitOk, stopWarn[c] \cup failed)
    /\ UNCHANGED <<RECORDING_MANAGER, TRANSCRIPTION_TASK, lock, nextSid, now,
                   listeners, SPEECH_DETECTED_EMITTED, startPc, progressTask, reconnectVars>>

\* ------------------------------------------------------------- pause and resume
\* RecordingManager::pause_recording: NotRecording without an active capture,
\* AlreadyPaused when paused, else opens the pause interval at `now`.
manager_pause_result(m) ==
    IF ~m.started \/ m.halted THEN "NotRecording"
    ELSE IF m.paused THEN "AlreadyPaused"
    ELSE "Ok"

manager_pause_recording(m, t) ==
    [m EXCEPT !.paused = TRUE, !.pauseStartedAt = t, !.openIntervals = @ + 1]

\* RecordingManager::resume_recording: NotPaused unless paused, else adds
\* now - current_pause_started_at to total_pause_duration and clears the interval.
manager_resume_result(m) ==
    IF ~m.started \/ m.halted THEN "NotRecording"
    ELSE IF ~m.paused THEN "NotPaused"
    ELSE "Ok"

manager_resume_recording(m, t) ==
    [m EXCEPT !.paused = FALSE, !.totalPause = @ + (t - m.pauseStartedAt),
              !.pauseStartedAt = Null, !.openIntervals = @ - 1]

\* pause_recording, lines 772-802.
pause_recording(emitOk) ==
    /\ IF ~IS_RECORDING
       THEN /\ resp' = Response("pause", "NotRecording", <<>>)
            /\ UNCHANGED session
       ELSE /\ lock = Free
            /\ IF RECORDING_MANAGER = None
               THEN /\ resp' = Response("pause", "NoManager", <<>>)
                    /\ UNCHANGED session
               ELSE LET r == manager_pause_result(session[RECORDING_MANAGER]) IN
                    IF r # "Ok"
                    THEN /\ resp' = Response("pause", r, <<>>)
                         /\ UNCHANGED session
                    ELSE /\ session' = [session EXCEPT ![RECORDING_MANAGER] =
                                            manager_pause_recording(@, now)]
                         /\ resp' = IF emitOk THEN Response("pause", "Ok", <<"recording-paused">>)
                                              ELSE Response("pause", "EmitError", <<>>)
    /\ UNCHANGED <<globals, lock, nextSid, now, worker, listeners, SPEECH_DETECTED_EMITTED, sessionOpen, startPc,
                   stopVars, reconnectVars>>
    /\ TrayReturn("pause", resp'.res = "Ok", resp'.res = "Ok")

\* resume_recording, lines 806-836.
resume_recording(emitOk) ==
    /\ IF ~IS_RECORDING
       THEN /\ resp' = Response("resume", "NotRecording", <<>>)
            /\ UNCHANGED session
       ELSE /\ lock = Free
            /\ IF RECORDING_MANAGER = None
               THEN /\ resp' = Response("resume", "NoManager", <<>>)
                    /\ UNCHANGED session
               ELSE LET r == manager_resume_result(session[RECORDING_MANAGER]) IN
                    IF r # "Ok"
                    THEN /\ resp' = Response("resume", r, <<>>)
                         /\ UNCHANGED session
                    ELSE /\ session' = [session EXCEPT ![RECORDING_MANAGER] =
                                            manager_resume_recording(@, now)]
                         /\ resp' = IF emitOk THEN Response("resume", "Ok", <<"recording-resumed">>)
                                              ELSE Response("resume", "EmitError", <<>>)
    /\ UNCHANGED <<globals, lock, nextSid, now, worker, listeners, SPEECH_DETECTED_EMITTED, sessionOpen, startPc,
                   stopVars, reconnectVars>>
    /\ TrayReturn("resume", resp'.res = "Ok", resp'.res = "Ok")

\* ------------------------------------------------------------- tray handlers
\* set_tray_state, tray.rs lines 218-230: the menu built for `state` is shown.
set_tray_state(state) == trayMenu' = build_menu(state)

\* toggle_recording_handler, tray.rs lines 52-117: with a recording active the
\* Stopping menu is shown and stop_recording called, otherwise the Starting
\* menu is shown and the front end is told to start a recording.
toggle_recording_handler ==
    /\ "toggle_recording" \in EnabledItems(trayMenu)
    /\ IF is_recording
       THEN /\ "stop" \notin trayTasks
            /\ set_tray_state("Stopping")
            /\ trayTasks' = trayTasks \cup {"stop"}
       ELSE /\ set_tray_state("Starting")
            /\ trayTasks' = trayTasks \cup {"start"}
    /\ UNCHANGED <<globals, lock, nextSid, now, session, worker, listeners,
                   SPEECH_DETECTED_EMITTED, sessionOpen, startPc, stopVars, reconnectVars,
                   trayUpdatePending, resp>>

\* pause_recording_handler, tray.rs lines 119-123: the Pausing menu is shown
\* and the task that calls pause_recording is spawned.
pause_recording_handler ==
    /\ "pause_recording" \in EnabledItems(trayMenu)
    /\ "pause" \notin trayTasks
    /\ set_tray_state("Pausing")
    /\ trayTasks' = trayTasks \cup {"pause"}
    /\ UNCHANGED <<globals, lock, nextSid, now, session, worker, listeners,
                   SPEECH_DETECTED_EMITTED, sessionOpen, startPc, stopVars, reconnectVars,
                   trayUpdatePending, resp>>

\* resume_recording_handler, tray.rs lines 136-140.
resume_recording_handler ==
    /\ "resume_recording" \in EnabledItems(trayMenu)
    /\ "resume" \notin trayTasks
    /\ set_tray_state("Resuming")
    /\ trayTasks' = trayTasks \cup {"resume"}
    /\ UNCHANGED <<globals, lock, nextSid, now, session, worker, listeners,
                   SPEECH_DETECTED_EMITTED, sessionOpen, startPc, stopVars, reconnectVars,
                   trayUpdatePending, resp>>

\* stop_recording_handler, tray.rs lines 154-160.
stop_recording_handler ==
    /\ "stop_recording" \in EnabledItems(trayMenu)
    /\ "stop" \notin trayTasks
    /\ set_tray_state("Stopping")
    /\ trayTasks' = trayTasks \cup {"stop"}
    /\ UNCHANGED <<globals, lock, nextSid, now, session, worker, listeners,
                   SPEECH_DETECTED_EMITTED, sessionOpen, startPc, stopVars, reconnectVars,
                   trayUpdatePending, resp>>

\* tray.rs lines 63-70 and 164-171: the data directory cannot be resolved; the
\* menu is rebuilt from the current state and stop_recording is not called.
stop_recording_handler_no_data_dir(c) ==
    /\ "stop" \in trayTasks
    /\ stopPc[c] = "idle"
    /\ IF is_recording THEN lock = Free ELSE TRUE
    /\ set_tray_state(get_current_recording_state)
    /\ trayTasks' = trayTasks \ {"stop"}
    /\ UNCHANGED <<globals, lock, nextSid, now, session, worker, listeners,
                   SPEECH_DETECTED_EMITTED, sessionOpen, startPc, stopVars, reconnectVars,
                   trayUpdatePending, resp>>

\* The calls the tray makes or asks for: the front end's start call after a
\* toggle, and the stop, pause and resume calls of the spawned handler tasks.
tray_start_recording(c) == "start" \in trayTasks /\ start_recording_check(c)
tray_stop_recording(c) == "stop" \in trayTasks /\ stop_recording_begin(c)
tray_pause_recording(emitOk) == "pause" \in trayTasks /\ pause_recording(emitOk)
tray_resume_recording(emitOk) == "resume" \in trayTasks /\ resume_recording(emitOk)

\* update_tray_menu and update_tray_menu_async, tray.rs lines 208-216 and
\* 258-274: the spawned task has slept, reads the state and shows its menu.
update_tray_menu_task ==
    /\ trayUpdatePending
    /\ IF is_recording THEN lock = Free ELSE TRUE
    /\ set_tray_state(get_current_recording_state)
    /\ trayUpdatePending' = FALSE
    /\ UNCHANGED <<globals, lock, nextSid, now, session, worker, listeners,
                   SPEECH_DETECTED_EMITTED, sessionOpen, startPc, stopVars, reconnectVars,
                   trayTasks, resp>>

\* ------------------------------------------------------------- queries
\* RecordingManager accessors read by the queries.
get_recording_duration(m) == now - m.startedAt
get_total_pause_duration(m) == m.totalPause
get_current_pause_duration(m) == IF m.paused THEN now - m.pauseStartedAt ELSE Null
get_active_recording_duration(m) ==
    get_recording_duration(m) - get_total_pause_duration(m)

\* A state report whose active duration is the whole recording duration.
get_recording_state_active_is_total ==
    IF RECORDING_MANAGER # None
    THEN LET m == session[RECORDING_MANAGER] IN
         [is_recording |-> IS_RECORDING,
          is_paused |-> m.paused,
          is_active |-> m.started /\ ~m.halted /\ ~m.paused,
          recording_duration |-> get_recording_duration(m),
          active_duration |-> get_recording_duration(m),
          total_pause_duration |-> get_total_pause_duration(m),
          current_pause_duration |-> get_current_pause_duration(m)]
    ELSE [is_recording |-> IS_RECORDING,
          is_paused |-> FALSE,
          is_active |-> FALSE,
          recording_duration |-> Null,
          active_duration |-> Null,
          total_pause_duration |-> 0,
          current_pause_duration |-> Null]

\* A state report that takes is_active from the recording flag when no
\* manager is stored.
get_recording_state_active_from_flag ==
    IF RECORDING_MANAGER # None
    THEN LET m == session[RECORDING_MANAGER] IN
         [is_recording |-> IS_RECORDING,
          is_paused |-> m.paused,
          is_active |-> m.started /\ ~m.halted /\ ~m.paused,
          recording_duration |-> get_recording_duration(m),
          active_duration |-> get_active_recording_duration(m),
          total_pause_duration |-> get_total_pause_duration(m),
          current_pause_duration |-> get_current_pause_duration(m)]
    ELSE [is_recording |-> IS_RECORDING,
          is_paused |-> FALSE,
          is_active |-> IS_RECORDING,
          recording_duration |-> Null,
          active_duration |-> Null,
          total_pause_duration |-> 0,
          current_pause_duration |-> Null]

\* get_recording_state, lines 851-876.
get_recording_state ==
    IF RECORDING_MANAGER # None
    THEN LET m == session[RECORDING_MANAGER] IN
         [is_recording |-> IS_RECORDING,
          is_paused |-> m.paused,
          is_active |-> m.started /\ ~m.halted /\ ~m.paused,
          recording_duration |-> get_recording_duration(m),
          active_duration |-> get_active_recording_duration(m),
          total_pause_duration |-> get_total_pause_duration(m),
          current_pause_duration |-> get_current_pause_duration(m)]
    ELSE [is_recording |-> IS_RECORDING,
          is_paused |-> FALSE,
          is_active |-> FALSE,
          recording_duration |-> Null,
          active_duration |-> Null,
          total_pause_duration |-> 0,
          current_pause_duration |-> Null]

\* get_meeting_folder_path, lines 881-888.
get_meeting_folder_path ==
    IF RECORDING_MANAGER # None THEN session[RECORDING_MANAGER].meeting_folder ELSE {}

\* get_recording_meeting_name, lines 906-914.
get_recording_meeting_name ==
    IF RECORDING_MANAGER # None THEN session[RECORDING_MANAGER].meeting_name ELSE {}

\* get_transcript_history, lines 893-901.
get_transcript_history ==
    IF RECORDING_MANAGER # None THEN session[RECORDING_MANAGER].history ELSE <<>>

\* A meeting-ended record with the active and the pause duration exchanged.
analytics_data_swapped(c) ==
    LET m == session[stopMgr[c]] IN
    [total_duration |-> get_recording_duration(m),
     active_duration |-> get_total_pause_duration(m),
     pause_duration |-> get_active_recording_duration(m),
     transcript_segments_count |-> Len(m.history)]

\* stop_recording, lines 568-584: what a stop call that holds a manager reads
\* from it for the meeting-ended record, after the model unload.
analytics_data(c) ==
    LET m == session[stopMgr[c]] IN
    [total_duration |-> get_recording_duration(m),
     active_duration |-> get_active_recording_duration(m),
     pause_duration |-> get_total_pause_duration(m),
     transcript_segments_count |-> Len(m.history)]

\* ------------------------------------------------------------- device monitor
\* The event the monitor of manager m queues next: its position in the
\* emission order is one more than the number of events emitted so far.
DeviceEvent(m, type, name, r) ==
    [type |-> type, device_name |-> name, device_type |-> r,
     seq |-> m.polled + Len(m.deviceEvents) + 1]

\* The watcher of role r finds the bound device no longer enumerable: the role
\* becomes Disconnected, its capture is suspended, the ReconnectionState
\* records the device and DeviceDisconnected is queued.
handle_device_disconnect(m, r) ==
    [m EXCEPT !.connectivity[r] = "Disconnected",
              !.capturing[r] = FALSE,
              !.disconnects = @ + 1,
              !.disconnected_device = {[name |-> m.binding[r], device_type |-> r]},
              !.is_reconnecting = TRUE,
              !.deviceEvents = Append(@, DeviceEvent(m, "DeviceDisconnected", m.binding[r], r))]

device_disconnect(s, r) ==
    /\ session[s].started /\ ~session[s].halted /\ ~session[s].dropped
    /\ session[s].connectivity[r] = "Connected"
    /\ session[s].disconnects < MaxDisconnects
    /\ session' = [session EXCEPT ![s] = handle_device_disconnect(@, r)]
    /\ UNCHANGED <<globals, lock, nextSid, now, worker, listeners, SPEECH_DETECTED_EMITTED, trayVars, sessionOpen, startPc,
                   stopVars, reconnectVars, resp>>

\* The enumerable device set changed: DeviceListChanged is queued and nothing
\* else changes.
device_list_changed(s) ==
    /\ session[s].started /\ ~session[s].halted /\ ~session[s].dropped
    /\ session[s].listChanges < MaxListChanges
    /\ session' = [session EXCEPT
          ![s].listChanges = @ + 1,
          ![s].deviceEvents = Append(@, [type |-> "DeviceListChanged",
                                         seq |-> session[s].polled + Len(session[s].deviceEvents) + 1])]
    /\ UNCHANGED <<globals, lock, nextSid, now, worker, listeners, SPEECH_DETECTED_EMITTED, trayVars, sessionOpen, startPc,
                   stopVars, reconnectVars, resp>>

\* manager.poll_device_events(): the oldest queued event, if any, is removed
\* from the queue and returned.
manager_poll_device_events(m) ==
    IF m.deviceEvents = <<>>
    THEN [event |-> {}, manager |-> m]
    ELSE [event |-> {Head(m.deviceEvents)},
          manager |-> [m EXCEPT !.deviceEvents = Tail(@), !.polled = @ + 1]]

\* A conversion that maps both device variants to DeviceDisconnected.
DeviceEventResponse_one_variant(event) ==
    IF event.type = "DeviceListChanged"
    THEN [type |-> "DeviceListChanged"]
    ELSE [type |-> "DeviceDisconnected", device_name |-> event.device_name,
          device_type |-> DebugFormat(event.device_type)]

\* impl From<DeviceEvent> for DeviceEventResponse.
DeviceEventResponse(event) ==
    IF event.type = "DeviceListChanged"
    THEN [type |-> "DeviceListChanged"]
    ELSE [type |-> event.type, device_name |-> event.device_name,
          device_type |-> DebugFormat(event.device_type)]

\* What poll_audio_device_events returned: None or Some(event), with the
\* position of the event in the emission order.
PollResponse(events) ==
    [op |-> "poll", res |-> IF events = {} THEN "None" ELSE "Some", events |-> <<>>,
     event |-> {DeviceEventResponse(e) : e \in events}, seq |-> {e.seq : e \in events}]

\* A poll that returns the oldest event and leaves it in the queue.
poll_audio_device_events_peek ==
    /\ lock = Free
    /\ IF RECORDING_MANAGER = None
       THEN resp' = PollResponse({})
       ELSE resp' = PollResponse(manager_poll_device_events(session[RECORDING_MANAGER]).event)
    /\ UNCHANGED <<globals, lock, nextSid, now, session, worker, listeners, SPEECH_DETECTED_EMITTED, trayVars, sessionOpen,
                   startPc, stopVars, reconnectVars>>

\* poll_audio_device_events, lines 972-986.
poll_audio_device_events ==
    /\ lock = Free
    /\ IF RECORDING_MANAGER = None
       THEN /\ resp' = PollResponse({})
            /\ UNCHANGED session
       ELSE LET polled == manager_poll_device_events(session[RECORDING_MANAGER])
            IN /\ resp' = PollResponse(polled.event)
               /\ session' = [session EXCEPT ![RECORDING_MANAGER] = polled.manager]
    /\ UNCHANGED <<globals, lock, nextSid, now, worker, listeners, SPEECH_DETECTED_EMITTED, trayVars, sessionOpen, startPc,
                   stopVars, reconnectVars>>

\* A status whose flag is derived from the roles' connectivity instead of the
\* manager's reconnecting flag.
get_reconnection_status_flag_from_roles ==
    IF RECORDING_MANAGER # None
    THEN [is_reconnecting |-> \E r \in DeviceMonitorType :
                                 session[RECORDING_MANAGER].connectivity[r] # "Connected",
          disconnected_device |->
              {[name |-> d.name, device_type |-> DebugFormat(d.device_type)] :
                  d \in session[RECORDING_MANAGER].disconnected_device}]
    ELSE [is_reconnecting |-> FALSE, disconnected_device |-> {}]

\* get_reconnection_status, lines 991-1014.
get_reconnection_status ==
    IF RECORDING_MANAGER # None
    THEN [is_reconnecting |-> session[RECORDING_MANAGER].is_reconnecting,
          disconnected_device |->
              {[name |-> d.name, device_type |-> DebugFormat(d.device_type)] :
                  d \in session[RECORDING_MANAGER].disconnected_device}]
    ELSE [is_reconnecting |-> FALSE, disconnected_device |-> {}]

\* ------------------------------------------------------------- reconnect
\* A match that takes every string other than "Microphone" for the system role.
ParseDeviceType_default_system(device_type) ==
    IF device_type = "Microphone" THEN {Microphone} ELSE {SystemAudio}

\* The match of lines 1033-1037 on the device type string; {} where the
\* command returns "Invalid device type".
ParseDeviceType(device_type) ==
    IF device_type = "Microphone" THEN {Microphone}
    ELSE IF device_type = "SystemAudio" THEN {SystemAudio}
    ELSE {}

\* manager.attempt_device_reconnect found the named device: the role is
\* rebound to it and connected, its capture resumes on a new stream, the
\* ReconnectionState is cleared and DeviceReconnected is queued.
manager_reconnected(m, name, r) ==
    [m EXCEPT !.connectivity[r] = "Connected",
              !.binding[r] = name,
              !.capturing[r] = TRUE,
              !.streamStarts[r] = @ + 1,
              !.disconnected_device = {},
              !.is_reconnecting = FALSE,
              !.deviceEvents = Append(@, DeviceEvent(m, "DeviceReconnected", name, r))]

\* attempt_device_reconnect, lines 1032-1045: the device type is parsed, the
\* manager is looked up under the lock and the lock released.
attempt_device_reconnect_begin(c, device_name, device_type) ==
    /\ reconnectPc[c] = "idle"
    /\ IF ParseDeviceType(device_type) = {}
       THEN /\ resp' = Response("reconnect", "InvalidDeviceType", <<>>)
            /\ UNCHANGED reconnectVars
       ELSE /\ lock = Free
            /\ IF RECORDING_MANAGER = None
               THEN /\ resp' = Response("reconnect", "NotActive", <<>>)
                    /\ UNCHANGED reconnectVars
               ELSE /\ reconnectPc' = [reconnectPc EXCEPT ![c] = "spawned"]
                    /\ reconnectArg' = [reconnectArg EXCEPT ![c] =
                           [device_name |-> device_name,
                            monitor_type |-> CHOOSE r \in ParseDeviceType(device_type) : TRUE]]
                    /\ UNCHANGED resp
    /\ UNCHANGED <<globals, lock, nextSid, now, session, worker, listeners, SPEECH_DETECTED_EMITTED, trayVars, sessionOpen, startPc,
                   stopVars>>

\* Lines 1048-1055: the blocking task locks RECORDING_MANAGER and, with a
\* manager, awaits manager.attempt_device_reconnect with the guard alive.  The
\* manager refuses a role that is not disconnected before it enumerates the
\* devices; otherwise the role is Reconnecting while the enumeration runs.
attempt_device_reconnect_lock(c) ==
    /\ reconnectPc[c] = "spawned"
    /\ lock = Free
    /\ IF RECORDING_MANAGER = None
       THEN /\ resp' = Response("reconnect", "NotActive", <<>>)
            /\ reconnectPc' = [reconnectPc EXCEPT ![c] = "idle"]
            /\ reconnectArg' = [reconnectArg EXCEPT ![c] = NoReconnectArg]
            /\ UNCHANGED <<lock, session>>
       ELSE IF session[RECORDING_MANAGER].connectivity[reconnectArg[c].monitor_type] = "Connected"
       THEN /\ resp' = Response("reconnect", "NotDisconnected", <<>>)
            /\ reconnectPc' = [reconnectPc EXCEPT ![c] = "idle"]
            /\ reconnectArg' = [reconnectArg EXCEPT ![c] = NoReconnectArg]
            /\ UNCHANGED <<lock, session>>
       ELSE /\ lock' = c
            /\ reconnectPc' = [reconnectPc EXCEPT ![c] = "enumerating"]
            /\ session' = [session EXCEPT
                  ![RECORDING_MANAGER].connectivity[reconnectArg[c].monitor_type] = "Reconnecting"]
            /\ UNCHANGED <<reconnectArg, resp>>
    /\ UNCHANGED <<globals, nextSid, now, worker, listeners, SPEECH_DETECTED_EMITTED, trayVars, sessionOpen, startPc, stopVars>>

\* A reconnect of one role that restarts the streams of both roles.
attempt_device_reconnect_done_restart_all(c, found) ==
    /\ reconnectPc[c] = "enumerating"
    /\ lock' = Free
    /\ reconnectPc' = [reconnectPc EXCEPT ![c] = "idle"]
    /\ reconnectArg' = [reconnectArg EXCEPT ![c] = NoReconnectArg]
    /\ IF found
       THEN /\ session' = [session EXCEPT ![RECORDING_MANAGER] =
                  [manager_reconnected(@, reconnectArg[c].device_name, reconnectArg[c].monitor_type)
                      EXCEPT !.streamStarts = [r \in DeviceMonitorType |->
                                                  session[RECORDING_MANAGER].streamStarts[r] + 1]]]
            /\ resp' = Response("reconnect", "Reconnected", <<>>)
       ELSE /\ resp' = Response("reconnect", "ReconnectUnavailable", <<>>)
            /\ UNCHANGED session
    /\ UNCHANGED <<globals, nextSid, now, worker, listeners, SPEECH_DETECTED_EMITTED, trayVars, sessionOpen, startPc, stopVars>>

\* Lines 1052-1074: the device re-enumeration resolved; the guard is dropped
\* and the result returned: Ok(true) when the device was found, Ok(false)
\* when it is still unavailable.
attempt_device_reconnect_done(c, found) ==
    /\ reconnectPc[c] = "enumerating"
    /\ lock' = Free
    /\ reconnectPc' = [reconnectPc EXCEPT ![c] = "idle"]
    /\ reconnectArg' = [reconnectArg EXCEPT ![c] = NoReconnectArg]
    /\ IF found
       THEN /\ session' = [session EXCEPT ![RECORDING_MANAGER] =
                  manager_reconnected(@, reconnectArg[c].device_name, reconnectArg[c].monitor_type)]
            /\ resp' = Response("reconnect", "Reconnected", <<>>)
       ELSE /\ resp' = Response("reconnect", "ReconnectUnavailable", <<>>)
            /\ UNCHANGED session
    /\ UNCHANGED <<globals, nextSid, now, worker, listeners, SPEECH_DETECTED_EMITTED, trayVars, sessionOpen, startPc, stopVars>>

\* ------------------------------------------------------------- clock
\* The clock is read in whole seconds and advances in steps of TimeStep.
TimeStep == 5

Tick ==
    /\ now < MaxTime
    /\ now' = now + TimeStep
    /\ UNCHANGED <<globals, lock, nextSid, session, worker, listeners, SPEECH_DETECTED_EMITTED, trayVars, sessionOpen, startPc,
                   stopVars, reconnectVars, resp>>

\* ------------------------------------------------------------- specification
\* Session lifecycle: concurrent start and stop calls, capture, worker pool;
\* the auxiliary steps of stop (model unload, analytics, save) succeed.
Next ==
    \/ \E c \in StartCalls : start_recording_check(c)
    \/ \E c \in StartCalls : start_recording_model_not_ready(c)
    \/ \E c \in StartCalls : start_recording_capture_fails(c)
    \/ \E c \in StartCalls, e \in BOOLEAN : start_recording_commit(c, e)
    \/ \E s \in Sids : capture_chunk(s)
    \/ \E s \in Sids, k \in 0..(MaxChunks - 1) : transcribe_chunk(s, k)
    \/ \E s \in Sids : worker_finish(s)
    \/ \E s \in Sids : worker_panic(s)
    \/ \E c \in StopCalls : stop_recording_begin(c)
    \/ \E c \in StopCalls, f \in BOOLEAN : stop_recording_streams_stopped(c, f)
    \/ \E c \in StopCalls : stop_recording_streams_failed(c)
    \/ \E c \in StopCalls : progress_tick(c)
    \/ \E c \in StopCalls : stop_recording_drained(c)
    \/ \E c \in StopCalls, e \in BOOLEAN : stop_recording_unloaded(c, e, {})
    \/ \E c \in StopCalls, e \in BOOLEAN : stop_recording_saved(c, e, {})

Spec == Init /\ [][Next]_vars

\* The same with fair scheduling of the stop calls and of the worker pool.
Fairness ==
    /\ \A c \in StopCalls :
          /\ WF_vars(\E f \in BOOLEAN : stop_recording_streams_stopped(c, f))
          /\ WF_vars(stop_recording_drained(c))
          /\ WF_vars(\E e \in BOOLEAN : stop_recording_unloaded(c, e, {}))
          /\ WF_vars(\E e \in BOOLEAN : stop_recording_saved(c, e, {}))
    /\ \A s \in Sids :
          /\ WF_vars(\E k \in 0..(MaxChunks - 1) : transcribe_chunk(s, k))
          /\ WF_vars(worker_finish(s))

FairSpec == Spec /\ Fairness

\* One caller of each command, with pause, resume, reconnect and the clock.
ControlNext ==
    \/ Tick
    \/ start_recording_check("a1")
    \/ start_recording_model_not_ready("a1")
    \/ start_recording_capture_fails("a1")
    \/ \E e \in BOOLEAN : start_recording_commit("a1", e)
    \/ \E s \in Sids : worker_finish(s)
    \/ stop_recording_begin("z1")
    \/ \E f \in BOOLEAN : stop_recording_streams_stopped("z1", f)
    \/ stop_recording_drained("z1")
    \/ \E e \in BOOLEAN : stop_recording_unloaded("z1", e, {})
    \/ \E e \in BOOLEAN : stop_recording_saved("z1", e, {})
    \/ \E e \in BOOLEAN : pause_recording(e)
    \/ \E e \in BOOLEAN : resume_recording(e)
    \/ \E c \in ReconnectCalls, t \in {"Microphone", "Speaker"} :
          attempt_device_reconnect_begin(c, "mic0", t)
    \/ \E c \in ReconnectCalls : attempt_device_reconnect_lock(c)

ControlSpec == Init /\ [][ControlNext]_vars

\* A start call among the first MaxDeviceSessions sessions.
start_recording_first_sessions(c) == nextSid <= MaxDeviceSessions /\ start_recording_check(c)

\* One session at a time with the device monitor, the poll command and one
\* caller of attempt_device_reconnect.
DeviceNext ==
    \/ start_recording_first_sessions("a1")
    \/ start_recording_commit("a1", TRUE)
    \/ stop_recording_begin("z1")
    \/ stop_recording_streams_stopped("z1", FALSE)
    \/ stop_recording_drained("z1")
    \/ stop_recording_unloaded("z1", TRUE, {})
    \/ stop_recording_saved("z1", TRUE, {})
    \/ \E s \in Sids : worker_finish(s)
    \/ \E s \in Sids, r \in DeviceMonitorType : device_disconnect(s, r)
    \/ \E s \in Sids : device_list_changed(s)
    \/ poll_audio_device_events
    \/ \E c \in ReconnectCalls, n \in DeviceNames, t \in DeviceTypeStrings :
          attempt_device_reconnect_begin(c, n, t)
    \/ \E c \in ReconnectCalls : attempt_device_reconnect_lock(c)
    \/ \E c \in ReconnectCalls, f \in BOOLEAN : attempt_device_reconnect_done(c, f)

DeviceSpec == Init /\ [][DeviceNext]_vars

\* Two start callers, one stop caller and the pause and resume commands.
RaceNext ==
    \/ \E c \in StartCalls : start_recording_check(c)
    \/ \E c \in StartCalls : start_recording_commit(c, TRUE)
    \/ \E s \in Sids : worker_finish(s)
    \/ stop_recording_begin("z1")
    \/ stop_recording_streams_stopped("z1", FALSE)
    \/ stop_recording_drained("z1")
    \/ stop_recording_unloaded("z1", TRUE, {})
    \/ stop_recording_saved("z1", TRUE, {})
    \/ pause_recording(TRUE)
    \/ resume_recording(TRUE)

RaceSpec == Init /\ [][RaceNext]_vars

\* A start call that begins only while the call that returned last is not a
\* stop call: no start begins after a stop has returned.
start_recording_before_stop_returned(c) == resp.op # "stop" /\ start_recording_check(c)

\* One start caller and one stop caller with pause and resume, where a start
\* call never begins after a stop call has returned.
OverlapNext ==
    \/ start_recording_before_stop_returned("a1")
    \/ \E e \in BOOLEAN : start_recording_commit("a1", e)
    \/ \E s \in Sids : capture_chunk(s)
    \/ \E s \in Sids, k \in 0..(MaxChunks - 1) : transcribe_chunk(s, k)
    \/ \E s \in Sids : worker_finish(s)
    \/ stop_recording_begin("z1")
    \/ \E f \in BOOLEAN : stop_recording_streams_stopped("z1", f)
    \/ stop_recording_drained("z1")
    \/ stop_recording_unloaded("z1", TRUE, {})
    \/ stop_recording_saved("z1", TRUE, {})
    \/ pause_recording(TRUE)
    \/ resume_recording(TRUE)

OverlapSpec == Init /\ [][OverlapNext]_vars

\* The recording driven from the tray menu: every start, stop, pause and
\* resume call is one the tray asked for.
TrayNext ==
    \/ toggle_recording_handler
    \/ pause_recording_handler
    \/ resume_recording_handler
    \/ stop_recording_handler
    \/ stop_recording_handler_no_data_dir("z1")
    \/ update_tray_menu_task
    \/ tray_start_recording("a1")
    \/ start_recording_model_not_ready("a1")
    \/ \E e \in BOOLEAN : start_recording_commit("a1", e)
    \/ \E s \in Sids : worker_finish(s)
    \/ tray_stop_recording("z1")
    \/ stop_recording_streams_stopped("z1", FALSE)
    \/ stop_recording_drained("z1")
    \/ \E e \in BOOLEAN : stop_recording_unloaded("z1", e, {})
    \/ \E e \in BOOLEAN : stop_recording_saved("z1", e, {})
    \/ \E e \in BOOLEAN : tray_pause_recording(e)
    \/ \E e \in BOOLEAN : tray_resume_recording(e)

\* Every call that was asked for is made and runs to its end, and every
\* spawned menu update runs; the clicks on the menu are not forced.
TrayFairness ==
    /\ WF_vars(update_tray_menu_task)
    /\ WF_vars(stop_recording_handler_no_data_dir("z1") \/ tray_stop_recording("z1"))
    /\ WF_vars(tray_start_recording("a1"))
    /\ WF_vars(start_recording_model_not_ready("a1")
                  \/ \E e \in BOOLEAN : start_recording_commit("a1", e))
    /\ WF_vars(\E s \in Sids : worker_finish(s))
    /\ WF_vars(stop_recording_streams_stopped("z1", FALSE))
    /\ WF_vars(stop_recording_drained("z1"))
    /\ WF_vars(\E e \in BOOLEAN : stop_recording_unloaded("z1", e, {}))
    /\ WF_vars(\E e \in BOOLEAN : stop_recording_saved("z1", e, {}))
    /\ WF_vars(\E e \in BOOLEAN : tray_pause_recording(e))
    /\ WF_vars(\E e \in BOOLEAN : tray_resume_recording(e))

TraySpec == Init /\ [][TrayNext]_vars /\ TrayFairness

\* One start caller and one stop caller, where every start loads the recording
\* preferences with any of the results of LoadResults.
PreferencesNext ==
    \/ start_recording_check("a1")
    \/ start_recording_model_not_ready("a1")
    \/ start_recording_capture_fails("a1")
    \/ \E e \in BOOLEAN, loaded \in LoadResults :
          start_recording_commit_with_preferences("a1", e, loaded)
    \/ \E s \in Sids : worker_finish(s)
    \/ stop_recording_begin("z1")
    \/ stop_recording_streams_stopped("z1", FALSE)
    \/ stop_recording_drained("z1")
    \/ stop_recording_unloaded("z1", TRUE, {})
    \/ stop_recording_saved("z1", TRUE, {})

PreferencesSpec == Init /\ [][PreferencesNext]_vars

\* One start caller and one stop caller with up to MaxPipelineChunks chunks per
\* session, which the worker pool completes in any order.
PipelineNext ==
    \/ start_recording_check("a1")
    \/ start_recording_commit("a1", TRUE)
    \/ \E s \in Sids : capture_chunk_upto(s, MaxPipelineChunks)
    \/ \E s \in Sids, k \in 0..(MaxPipelineChunks - 1) : transcribe_chunk(s, k)
    \/ \E s \in Sids : worker_finish(s)
    \/ stop_recording_begin("z1")
    \/ stop_recording_streams_stopped("z1", FALSE)
    \/ stop_recording_drained("z1")
    \/ stop_recording_unloaded("z1", TRUE, {})
    \/ stop_recording_saved("z1", TRUE, {})

PipelineSpec == Init /\ [][PipelineNext]_vars

\* One start caller and one stop caller, with the worker pool, the progress
\* task and failing auxiliary steps of stop.
ShutdownNext ==
    \/ start_recording_check("a1")
    \/ \E e \in BOOLEAN : start_recording_commit("a1", e)
    \/ \E s \in Sids : capture_chunk(s)
    \/ \E s \in Sids, k \in 0..(MaxChunks - 1) : transcribe_chunk(s, k)
    \/ \E s \in Sids : worker_finish(s)
    \/ \E s \in Sids : worker_panic(s)
    \/ stop_recording_begin("z1")
    \/ \E f \in BOOLEAN : stop_recording_streams_stopped("z1", f)
    \/ stop_recording_streams_failed("z1")
    \/ progress_tick("z1")
    \/ stop_recording_drained("z1")
    \/ \E e \in BOOLEAN, failed \in SUBSET {"unload", "analytics"} :
          stop_recording_unloaded("z1", e, failed)
    \/ \E e \in BOOLEAN, failed \in SUBSET {"save"} : stop_recording_saved("z1", e, failed)

ShutdownSpec == Init /\ [][ShutdownNext]_vars

\* ------------------------------------------------------------- shutdown progress
\* The stages of recording-shutdown-progress and their percent, lines 389-736.
ShutdownStages ==
    <<"stopping_audio", "processing_transcripts", "unloading_model", "finalizing",
      "complete">>

StagePercent(stage) ==
    CASE stage = "stopping_audio" -> 20
      [] stage = "processing_transcripts" -> 40
      [] stage = "unloading_model" -> 70
      [] stage = "finalizing" -> 90
      [] stage = "complete" -> 100

IsStage(e) == e \in Range(ShutdownStages)

\* The recording-shutdown-progress notifications of a log, in order.
Progress(log) == SelectSeq(log, IsStage)

NonDecreasing(log) ==
    \A i \in 1..(Len(log) - 1) : StagePercent(log[i]) <= StagePercent(log[i + 1])

\* A log with each run of a repeated notification reduced to one.
RECURSIVE Collapse(_)
Collapse(log) ==
    IF Len(log) <= 1 THEN log
    ELSE IF log[1] = log[2] THEN Collapse(Tail(log))
    ELSE <<log[1]>> \o Collapse(Tail(log))

\* ------------------------------------------------------------- claims
\* C1: once a start has returned Ok, a start issued before a stop has completed
\* (also while a stop runs its shutdown sequence) returns the already-active
\* error at its IS_RECORDING check and leaves the stored manager and the
\* stored transcription task as they are.
C1_StartRejectedWhileSessionOpen ==
    [][\A c \in StartCalls :
          (sessionOpen /\ start_recording_check(c)) =>
              /\ resp' = Response("start", "AlreadyActive", <<>>)
              /\ startPc'[c] = "idle"
              /\ RECORDING_MANAGER' = RECORDING_MANAGER
              /\ TRANSCRIPTION_TASK' = TRANSCRIPTION_TASK]_vars

\* A start was rejected while a stop call of the open session awaits the drain.
C1_Witness ==
    /\ sessionOpen
    /\ resp = Response("start", "AlreadyActive", <<>>)
    /\ \E c \in StopCalls : stopPc[c] = "drain" /\ stopMgr[c] # None

\* C2: at most one session: a start stores its manager and its task handle
\* only when none is stored, so concurrent starts never both create a session
\* and a live session's manager and handle are never overwritten.
C2_AtMostOneSession ==
    [][\A c \in StartCalls :
          (\E e \in BOOLEAN : start_recording_commit(c, e)) =>
              (RECORDING_MANAGER = None /\ TRANSCRIPTION_TASK = None)]_vars

\* C3: zero loss: a stop call of a session whose worker pool did not fail emits
\* 'complete' and returns only when every captured chunk of the session has a
\* transcript result.
C3_ZeroLoss ==
    [][\A c \in StopCalls :
          (\E e \in BOOLEAN : stop_recording_saved(c, e, {})) =>
              (worker[stopMgr[c]].status = "panicked" \/ AllProcessed(stopMgr[c]))]_vars

\* C4: history completeness: when a stop call finalizes the session whose
\* transcription task it awaited to completion, the session's history holds
\* exactly one segment seg_<k> for each chunk k the worker pool transcribed.
C4_HistoryComplete ==
    \A c \in StopCalls :
        (stopPc[c] = "save" /\ stopTask[c] = stopMgr[c]
                            /\ worker[stopMgr[c]].status = "done") =>
            LET history == session[stopMgr[c]].history IN
            /\ {history[i].id : i \in 1..Len(history)} =
                   {TranscriptSegment(k).id : k \in worker[stopMgr[c]].processed}
            /\ Len(history) = Cardinality(worker[stopMgr[c]].processed)

\* C5: strict stop sequencing: a stop call begins to wait for the drain only
\* once the streams of the task's session are halted, and begins the model
\* unload only once the transcription task of the session it holds has ended.
C5_StrictStopSequencing ==
    [][\A c \in StopCalls :
          /\ (stopPc[c] # "drain" /\ stopPc'[c] = "drain") =>
                 session'[stopTask'[c]].halted
          /\ (stopPc[c] # "unload" /\ stopPc'[c] = "unload" /\ stopMgr'[c] # None) =>
                 worker'[stopMgr'[c]].status \in {"done", "panicked", "ended"}]_vars

\* C6: the notifications of one stop call: the percent never decreases,
\* recording-stopped comes only after 'complete', and a call on an active
\* session that returned Ok emitted exactly stopping_audio,
\* processing_transcripts (repeated by the progress task), unloading_model,
\* finalizing, complete, recording-stopped, in this order.
C6_ShutdownStagesInOrder ==
    /\ \A c \in StopCalls :
          /\ NonDecreasing(Progress(shutdownLog[c]))
          /\ "recording-stopped" \notin Range(shutdownLog[c])
    /\ resp.op = "stop" =>
          /\ NonDecreasing(Progress(resp.events))
          /\ \A i \in 1..Len(resp.events) :
                resp.events[i] = "recording-stopped" =>
                    \E j \in 1..(i - 1) : resp.events[j] = "complete"
          /\ (resp.res = "Ok" /\ resp.events # <<>>) =>
                Collapse(resp.events) = ShutdownStages \o <<"recording-stopped">>

\* A stop call returned Ok after the progress task repeated processing_transcripts.
C6_Witness ==
    /\ resp.op = "stop" /\ resp.res = "Ok"
    /\ Count(resp.events, "processing_transcripts") = 2
    /\ Len(resp.events) = Len(ShutdownStages) + 2

\* C7: under fair scheduling a stop call that awaits the drain returns once the
\* worker pool has finished, and a stop call on an active session has emitted
\* unloading_model only if the session's worker pool has finished (while it has
\* not, the call waits).
C7_StopEndsExactlyWithWorkerPool ==
    /\ \A c \in StopCalls : (stopPc[c] = "drain") ~> (stopPc[c] = "idle")
    /\ [](\A c \in StopCalls :
             (stopMgr[c] # None /\ "unloading_model" \in Range(shutdownLog[c])) =>
                 Finished(stopMgr[c]))

\* C8: no call holds the RECORDING_MANAGER lock while it is suspended at an
\* await (every state of a call is a suspension point).
C8_LockNeverHeldAcrossAwait ==
    \A c \in StopCalls \cup ReconnectCalls \cup StartCalls : lock # c

\* C9: pause answers NotRecording without an active session and AlreadyPaused
\* when paused, resume answers NotPaused when not paused, and a pause or resume
\* that returns an error changes no session state and emits no acknowledgement.
C9_FailedPauseResumeChangesNothing ==
    [][\A e \in BOOLEAN :
          /\ (pause_recording(e) /\ ~IS_RECORDING) => resp'.res = "NotRecording"
          /\ (pause_recording(e) /\ is_recording_paused) => resp'.res = "AlreadyPaused"
          /\ (resume_recording(e) /\ IS_RECORDING /\ RECORDING_MANAGER # None
                                   /\ ~is_recording_paused) => resp'.res = "NotPaused"
          /\ ((pause_recording(e) \/ resume_recording(e)) /\ resp'.res # "Ok") =>
                 (session' = session /\ resp'.events = <<>>)]_vars

\* C10: the durations getState reports for a stored session satisfy
\* active_duration + total_pause_duration = recording_duration, and a session
\* has at most one open pause interval, open exactly while it is paused.
C10_DurationAccounting ==
    /\ RECORDING_MANAGER # None =>
          get_recording_state.active_duration + get_recording_state.total_pause_duration
              = get_recording_state.recording_duration
    /\ \A s \in Sids :
          /\ session[s].openIntervals <= 1
          /\ session[s].paused <=> (session[s].openIntervals = 1)
          /\ session[s].paused <=> (session[s].pauseStartedAt # Null)

\* A running session after a pause/resume cycle that took time.
C10_Witness ==
    /\ RECORDING_MANAGER # None
    /\ ~get_recording_state.is_paused
    /\ get_recording_state.total_pause_duration > 0
    /\ get_recording_state.active_duration > 0

\* C11: total_pause_duration is the sum of the completed pause intervals: it
\* is 0 at start, a successful pause only records current_pause_started_at =
\* now, a successful resume adds exactly now - current_pause_started_at and
\* clears the interval, nothing else changes it while the manager lives, and
\* stop reports it with active = total - total_pause (5 and 15 for a session
\* started at 0, paused from 10 to 15 and read by stop at 20).
C11_PauseSumOfCompletedIntervals ==
    /\ [][\A s \in Sids :
            LET m == session[s]
                n == session'[s]
            IN  /\ (~m.started /\ n.started) =>
                       (n.totalPause = 0 /\ n.pauseStartedAt = Null)
                /\ (m.started /\ ~m.dropped /\ ~n.dropped) =>
                       /\ (~m.paused /\ n.paused) =>
                              (n.totalPause = m.totalPause /\ n.pauseStartedAt = now)
                       /\ (m.paused /\ ~n.paused) =>
                              /\ n.totalPause = m.totalPause + (now - m.pauseStartedAt)
                              /\ n.pauseStartedAt = Null
                       /\ (m.paused = n.paused) =>
                              /\ n.totalPause = m.totalPause
                              /\ n.pauseStartedAt = m.pauseStartedAt]_vars
    /\ [](\A c \in StopCalls :
             (stopPc[c] = "unload" /\ stopMgr[c] # None) =>
                 LET m == session[stopMgr[c]] IN
                 /\ analytics_data(c).pause_duration = m.totalPause
                 /\ analytics_data(c).active_duration =
                        (now - m.startedAt) - m.totalPause
                 /\ (m.startedAt = 0 /\ now = 20 /\ m.totalPause = 5) =>
                        /\ analytics_data(c).pause_duration = 5
                        /\ analytics_data(c).active_duration = 15)

\* Stop reads the durations at 20 of a session started at 0 and paused for 5.
C11_Witness ==
    \E c \in StopCalls :
        /\ stopPc[c] = "unload" /\ stopMgr[c] # None
        /\ now = 20
        /\ session[stopMgr[c]].startedAt = 0
        /\ ~session[stopMgr[c]].paused
        /\ analytics_data(c).pause_duration = 5
        /\ analytics_data(c).active_duration = 15

\* C12: a start whose transcription-readiness check fails returns that error,
\* leaves IS_RECORDING, the stored manager and the stored task as they were
\* (false and none when no other call set them), creates no manager, stream or
\* transcription task, and emits transcription-error flagged actionable.
C12_ModelNotReadyStartsNothing ==
    [][\A c \in StartCalls :
          start_recording_model_not_ready(c) =>
              /\ resp' = Response("start", "ModelNotReady", <<TranscriptionError(TRUE)>>)
              /\ UNCHANGED <<IS_RECORDING, RECORDING_MANAGER, TRANSCRIPTION_TASK>>
              /\ UNCHANGED <<nextSid, session, worker>>
              /\ (\A s \in Sids : ~session[s].started) => ~is_recording']_vars

\* A first start returned the readiness error and nothing was created.
C12_Witness ==
    /\ resp = Response("start", "ModelNotReady", <<TranscriptionError(TRUE)>>)
    /\ ~is_recording
    /\ RECORDING_MANAGER = None /\ TRANSCRIPTION_TASK = None
    /\ \A s \in Sids : ~session[s].started /\ worker[s] = NoWorker

\* C13: a start that fails because a device name does not parse or the capture
\* start fails leaves IS_RECORDING, the stored manager and the stored task
\* exactly as they were and emits no recording-started.
C13_AllocationFailureIsAtomic ==
    [][\A c \in StartCalls :
          start_recording_capture_fails(c) =>
              /\ resp'.op = "start" /\ resp'.res = "CaptureStartFailure"
              /\ "recording-started" \notin Range(resp'.events)
              /\ UNCHANGED <<IS_RECORDING, RECORDING_MANAGER, TRANSCRIPTION_TASK>>]_vars

\* A start failed in its allocation phase while nothing was stored.
C13_Witness ==
    /\ resp = Response("start", "CaptureStartFailure", <<>>)
    /\ ~IS_RECORDING /\ RECORDING_MANAGER = None /\ TRANSCRIPTION_TASK = None

\* C14: once the streams of an active session halted, no failure aborts the
\* stop call: after a failed join, a failed model unload, a failed analytics
\* call or a failed save the call can always take its next step, it returns
\* only after finalizing and complete with IS_RECORDING false, and until the
\* manager is released at the end no step removes a segment of its history.
C14_LateErrorsNeverAbortStop ==
    /\ [](\A c \in StopCalls :
             /\ (stopPc[c] = "drain" /\ worker[stopTask[c]].status = "panicked") =>
                    ENABLED stop_recording_drained(c)
             /\ (stopPc[c] = "unload" /\ stopMgr[c] # None) =>
                    ENABLED stop_recording_unloaded(c, TRUE, {"unload", "analytics"})
             /\ stopPc[c] = "save" => ENABLED stop_recording_saved(c, TRUE, {"save"}))
    /\ [][\A c \in StopCalls :
            /\ (stopPc[c] \in {"drain", "unload", "save"} /\ stopPc'[c] = "idle") =>
                   /\ resp'.op = "stop"
                   /\ "finalizing" \in Range(resp'.events)
                   /\ "complete" \in Range(resp'.events)
                   /\ ~is_recording'
            /\ (stopMgr[c] # None /\ stopPc[c] \in {"drain", "unload", "save"}) =>
                   session[stopMgr[c]].history = session'[stopMgr[c]].history
                   \/ stopPc'[c] = "idle"]_vars

\* A stop call returned Ok although the join, the model unload, the analytics
\* call and the save had all failed.
C14_Witness ==
    /\ resp.op = "stop" /\ resp.res = "Ok"
    /\ "warned" \in DOMAIN resp
    /\ resp.warned = {"join", "unload", "analytics", "save"}
    /\ "complete" \in Range(resp.events)
    /\ ~is_recording

\* C15: the periodic progress task of a stop call runs only while the call
\* awaits the drain: the step that ends the wait aborts it whether the join
\* succeeded or failed, so it emits nothing after that and none is left when
\* the call has returned.
C15_ProgressTaskCancelledAfterDrain ==
    /\ [](\A c \in StopCalls : progressTask[c] = "running" => stopPc[c] = "drain")
    /\ [][\A c \in StopCalls :
            /\ stop_recording_drained(c) => progressTask'[c] = "none"
            /\ progress_tick(c) => stopPc[c] = "drain"
            /\ (stopPc[c] = "idle" /\ stopPc'[c] = "idle") =>
                   shutdownLog'[c] = shutdownLog[c]]_vars

\* The join failed after the progress task had emitted, and the task is gone.
C15_Witness ==
    \E c \in StopCalls :
        /\ stopPc[c] = "unload"
        /\ "join" \in stopWarn[c]
        /\ Count(shutdownLog[c], "processing_transcripts") = 2
        /\ progressTask[c] = "none"

\* C16: the events queued for a manager are in emission order and each emitted
\* event is either still queued or was delivered; a poll returns None without
\* a stored manager or with an empty queue, and otherwise delivers exactly the
\* oldest queued event, converted, and removes it, so that the delivered
\* positions are 1, 2, 3, ... without gap or repetition; no other step takes
\* an event out of the queue of the stored manager.
C16_PollDeliversFifoOnce ==
    /\ [](\A s \in Sids : \A i \in 1..Len(session[s].deviceEvents) :
              session[s].deviceEvents[i].seq = session[s].polled + i)
    /\ [][/\ poll_audio_device_events =>
               IF RECORDING_MANAGER = None
               THEN resp'.res = "None" /\ resp'.event = {} /\ session' = session
               ELSE LET m == session[RECORDING_MANAGER] IN
                    IF m.deviceEvents = <<>>
                    THEN resp'.res = "None" /\ resp'.event = {} /\ session' = session
                    ELSE /\ resp'.res = "Some"
                         /\ resp'.event = {DeviceEventResponse(Head(m.deviceEvents))}
                         /\ resp'.seq = {m.polled + 1}
                         /\ session'[RECORDING_MANAGER].deviceEvents = Tail(m.deviceEvents)
                         /\ session'[RECORDING_MANAGER].polled = m.polled + 1
          /\ (~poll_audio_device_events /\ RECORDING_MANAGER # None
                 /\ RECORDING_MANAGER' = RECORDING_MANAGER) =>
               /\ session'[RECORDING_MANAGER].polled = session[RECORDING_MANAGER].polled
               /\ Len(session'[RECORDING_MANAGER].deviceEvents) >=
                     Len(session[RECORDING_MANAGER].deviceEvents)]_vars

\* The third event emitted, a DeviceReconnected of the microphone, has been
\* delivered and the queue of the stored manager is drained.
C16_Witness ==
    /\ resp.op = "poll"
    /\ resp.seq = {3}
    /\ resp.event = {[type |-> "DeviceReconnected", device_name |-> "mic0",
                      device_type |-> "Microphone"]}
    /\ RECORDING_MANAGER # None
    /\ session[RECORDING_MANAGER].deviceEvents = <<>>

\* The role other than r.
OtherRole(r) == CHOOSE y \in DeviceMonitorType : y # r

\* What a session holds for role r: connectivity, binding, capture state and
\* the number of times its stream was started.
RoleState(m, r) ==
    <<m.connectivity[r], m.binding[r], m.capturing[r], m.streamStarts[r]>>

\* C17: a disconnect of one role leaves the connectivity, binding, capture
\* state and stream of the other role as they were; a successful
\* attempt_device_reconnect for a role clears isReconnecting, leaves that role
\* capturing again, and leaves the other role's binding, capture state and
\* stream as they were.
C17_RolesIndependent ==
    [][/\ \A s \in Sids, x \in DeviceMonitorType :
             device_disconnect(s, x) =>
                 /\ ~session'[s].capturing[x]
                 /\ RoleState(session'[s], OtherRole(x)) = RoleState(session[s], OtherRole(x))
       /\ \A c \in ReconnectCalls :
             attempt_device_reconnect_done(c, TRUE) =>
                 LET x == reconnectArg[c].monitor_type
                     m == RECORDING_MANAGER
                 IN /\ ~get_reconnection_status'.is_reconnecting
                    /\ session'[m].capturing[x]
                    /\ session'[m].connectivity[x] = "Connected"
                    /\ RoleState(session'[m], OtherRole(x)) = RoleState(session[m], OtherRole(x))]_vars

\* The microphone was lost and reconnected on a second stream while the
\* system-audio role kept capturing on its first one.
C17_Witness ==
    /\ resp.op = "reconnect" /\ resp.res = "Reconnected"
    /\ RECORDING_MANAGER # None
    /\ session[RECORDING_MANAGER].streamStarts = [r \in DeviceMonitorType |->
                                                     IF r = Microphone THEN 2 ELSE 1]
    /\ session[RECORDING_MANAGER].capturing = [r \in DeviceMonitorType |-> TRUE]
    /\ session[RECORDING_MANAGER].disconnects = 1
    /\ ~get_reconnection_status.is_reconnecting

ReconnectErrors == {"InvalidDeviceType", "NotActive", "NotDisconnected"}

\* C18: attempt_device_reconnect returns true and leaves the ReconnectionState
\* cleared when the device is found; returns false, not an error, and leaves
\* the ReconnectionState as it was when the device is unavailable; returns an
\* error when the role is not disconnected; and returns an error that changes
\* no session state when the type string is neither "Microphone" nor
\* "SystemAudio" or when no session is active.
C18_ReconnectResults ==
    [][\A c \in ReconnectCalls :
          /\ attempt_device_reconnect_done(c, TRUE) =>
                /\ resp'.res = "Reconnected"
                /\ get_reconnection_status' = [is_reconnecting |-> FALSE, disconnected_device |-> {}]
          /\ attempt_device_reconnect_done(c, FALSE) =>
                /\ resp'.res = "ReconnectUnavailable"
                /\ get_reconnection_status' = get_reconnection_status
          /\ attempt_device_reconnect_lock(c) =>
                /\ get_reconnection_status' = get_reconnection_status
                /\ IF RECORDING_MANAGER = None
                   THEN resp' = Response("reconnect", "NotActive", <<>>) /\ session' = session
                   ELSE IF session[RECORDING_MANAGER].connectivity[reconnectArg[c].monitor_type]
                              = "Connected"
                   THEN resp' = Response("reconnect", "NotDisconnected", <<>>) /\ session' = session
                   ELSE reconnectPc'[c] = "enumerating"
          /\ \A n \in DeviceNames, t \in DeviceTypeStrings :
                attempt_device_reconnect_begin(c, n, t) =>
                    /\ session' = session /\ UNCHANGED globals
                    /\ t \notin {"Microphone", "SystemAudio"} =>
                           resp' = Response("reconnect", "InvalidDeviceType", <<>>)
                    /\ (~IS_RECORDING \/ RECORDING_MANAGER = None) =>
                           (resp'.op = "reconnect" /\ resp'.res \in ReconnectErrors)
                    /\ reconnectPc'[c] = "spawned" =>
                           reconnectArg'[c] = [device_name |-> n,
                               monitor_type |-> IF t = "Microphone" THEN Microphone ELSE SystemAudio]]_vars

\* An attempt returned false and the ReconnectionState still names the lost
\* system-audio device.
C18_Witness ==
    /\ resp.op = "reconnect" /\ resp.res = "ReconnectUnavailable"
    /\ get_reconnection_status =
           [is_reconnecting |-> TRUE,
            disconnected_device |-> {[name |-> "sys0", device_type |-> "SystemAudio"]}]

\* C19: whenever get_reconnection_status reports a disconnected device, the
\* stored session has a role of the reported type that is not connected and
\* is bound to the reported device; the reported device and the reconnecting
\* flag are set and cleared together in every state, and the step of a
\* successful reconnect clears both.
C19_ReconnectionStateInvariant ==
    /\ [](/\ \A d \in get_reconnection_status.disconnected_device :
                \E r \in DeviceMonitorType :
                    /\ DebugFormat(r) = d.device_type
                    /\ session[RECORDING_MANAGER].connectivity[r] # "Connected"
                    /\ session[RECORDING_MANAGER].binding[r] = d.name
          /\ get_reconnection_status.is_reconnecting <=>
                 get_reconnection_status.disconnected_device # {})
    /\ [][\A c \in ReconnectCalls :
             (attempt_device_reconnect_done(c, TRUE) /\ get_reconnection_status.is_reconnecting) =>
                 /\ get_reconnection_status.disconnected_device # {}
                 /\ ~get_reconnection_status'.is_reconnecting
                 /\ get_reconnection_status'.disconnected_device = {}]_vars

\* Both roles were lost, one was reconnected and the status is cleared.
C19_Witness ==
    /\ resp.op = "reconnect" /\ resp.res = "Reconnected"
    /\ RECORDING_MANAGER # None
    /\ session[RECORDING_MANAGER].disconnects = 2
    /\ \E r \in DeviceMonitorType : session[RECORDING_MANAGER].connectivity[r] # "Connected"
    /\ get_reconnection_status = [is_reconnecting |-> FALSE, disconnected_device |-> {}]

\* The edges of a role's connectivity state machine.
ConnectivityEdges ==
    {<<"Connected", "Disconnected">>, <<"Disconnected", "Reconnecting">>,
     <<"Reconnecting", "Connected">>}

\* Number of device events the monitor of manager m has emitted.
Emitted(m) == m.polled + Len(m.deviceEvents)

\* The event emitted last, as poll_audio_device_events will deliver it.
LastEmitted(m) == DeviceEventResponse(m.deviceEvents[Len(m.deviceEvents)])

\* C20: while a session lives, the connectivity of each role changes only
\* along Connected -> Disconnected -> Reconnecting -> Connected; a role leaves
\* Disconnected only in a step of an attempt_device_reconnect call for that
\* role; a step emits at most one device event; a Connected -> Disconnected
\* step emits one DeviceDisconnected for the role's device, a
\* Reconnecting -> Connected step one DeviceReconnected, and no other step
\* emits either.
C20_ConnectivityStateMachine ==
    [][\A s \in Sids : ~session'[s].dropped =>
          LET a == session[s]
              b == session'[s]
              moved == {r \in DeviceMonitorType : a.connectivity[r] # b.connectivity[r]}
          IN /\ \A r \in moved :
                   /\ <<a.connectivity[r], b.connectivity[r]>> \in ConnectivityEdges
                   /\ a.connectivity[r] = "Disconnected" =>
                          \E c \in ReconnectCalls :
                              /\ attempt_device_reconnect_lock(c)
                              /\ reconnectArg[c].monitor_type = r
                   /\ b.connectivity[r] = "Disconnected" =>
                          /\ Emitted(b) = Emitted(a) + 1
                          /\ LastEmitted(b) = [type |-> "DeviceDisconnected",
                                               device_name |-> a.binding[r],
                                               device_type |-> DebugFormat(r)]
                   /\ b.connectivity[r] = "Connected" =>
                          /\ Emitted(b) = Emitted(a) + 1
                          /\ LastEmitted(b) = [type |-> "DeviceReconnected",
                                               device_name |-> b.binding[r],
                                               device_type |-> DebugFormat(r)]
             /\ Emitted(b) \in {Emitted(a), Emitted(a) + 1}
             /\ (Emitted(b) = Emitted(a) + 1 /\ LastEmitted(b).type # "DeviceListChanged") =>
                    \E r \in moved : b.connectivity[r] # "Reconnecting"]_vars

\* The microphone went through the whole cycle: its two events are queued and
\* both roles are connected, the microphone on its second stream.
C20_Witness ==
    /\ RECORDING_MANAGER # None
    /\ session[RECORDING_MANAGER].polled = 0
    /\ Len(session[RECORDING_MANAGER].deviceEvents) = 2
    /\ session[RECORDING_MANAGER].deviceEvents[1].type = "DeviceDisconnected"
    /\ LastEmitted(session[RECORDING_MANAGER]) =
           [type |-> "DeviceReconnected", device_name |-> "mic0", device_type |-> "Microphone"]
    /\ \A r \in DeviceMonitorType : session[RECORDING_MANAGER].connectivity[r] = "Connected"
    /\ session[RECORDING_MANAGER].streamStarts[Microphone] = 2

\* Number of add_transcript_segment calls one TranscriptUpdate leads to: every
\* listener registered so far (lines 159-187 / 326-354 register one per start
\* and none is ever unregistered) makes one call if a manager is stored.
add_transcript_segment_calls == IF RECORDING_MANAGER = None THEN 0 ELSE listeners

\* C21: a TranscriptUpdate emitted for the stored session leads to exactly one
\* add_transcript_segment call on its manager, and the history of no session
\* holds two segments with the same sequence id.
C21_OneAppendPerUpdate ==
    /\ [](\A s \in Sids : \A i, j \in 1..Len(session[s].history) :
              session[s].history[i].sequence_id = session[s].history[j].sequence_id => i = j)
    /\ [][\A s \in Sids, k \in 0..(MaxChunks - 1) :
             (transcribe_chunk(s, k) /\ RECORDING_MANAGER = s) =>
                 add_transcript_segment_calls = 1]_vars

\* The step in which stop call c emits the 'complete' stage and returns.
StopCompletes(c) ==
    /\ stopPc[c] # "idle" /\ stopPc'[c] = "idle"
    /\ resp'.op = "stop" /\ "complete" \in Range(resp'.events)

\* C22: a start emits recording-started once, and only with the session
\* active; a pause or resume emits its acknowledgement once and only when it
\* succeeds; a stop call that completes emits 'complete' and recording-stopped
\* once each, and it is the only one to do so for the session it was issued
\* for: the recording flag it found set is still set, so no other stop call
\* completed in the meantime.
C22_NotificationsOncePerEvent ==
    [][/\ \A c \in StartCalls, e \in BOOLEAN :
             start_recording_commit(c, e) =>
                 /\ Count(resp'.events, "recording-started") = (IF e THEN 1 ELSE 0)
                 /\ IS_RECORDING' /\ RECORDING_MANAGER' # None
       /\ \A e \in BOOLEAN :
             /\ pause_recording(e) =>
                   Count(resp'.events, "recording-paused") = (IF resp'.res = "Ok" THEN 1 ELSE 0)
             /\ resume_recording(e) =>
                   Count(resp'.events, "recording-resumed") = (IF resp'.res = "Ok" THEN 1 ELSE 0)
       /\ \A c \in StopCalls :
             StopCompletes(c) =>
                 /\ Count(resp'.events, "complete") = 1
                 /\ Count(resp'.events, "recording-stopped") <= 1
                 /\ IS_RECORDING]_vars

\* C23: the recording-stopped notification of a stop call issued for a started
\* session names a meeting folder and a meeting name, those of the session
\* the call took out of RECORDING_MANAGER.
C23_StoppedCarriesFolderAndName ==
    [][\A c \in StopCalls :
          (StopCompletes(c) /\ "recording-stopped" \in Range(resp'.events)) =>
              \A p \in resp'.stopped :
                  /\ p.meeting_name # {} /\ p.folder_path # {}
                  /\ stopMgr[c] # None
                  /\ p.meeting_name = session[stopMgr[c]].meeting_name
                  /\ p.folder_path = session[stopMgr[c]].meeting_folder]_vars

\* C24: the history of a session holds pairwise distinct sequence ids, each
\* segment has the id "seg_" + sequence_id, and a TranscriptUpdate observed
\* while its session is stored is appended at the end of the history that
\* get_transcript_history returns, whatever its sequence id.
C24_HistoryInArrivalOrder ==
    /\ [](\A s \in Sids : \A i, j \in 1..Len(session[s].history) :
              /\ session[s].history[i].id = <<"seg_", session[s].history[i].sequence_id>>
              /\ session[s].history[i].sequence_id = session[s].history[j].sequence_id => i = j)
    /\ [][\A s \in Sids, k \in 0..(MaxPipelineChunks - 1) :
             (transcribe_chunk(s, k) /\ RECORDING_MANAGER = s) =>
                 get_transcript_history' =
                     Append(get_transcript_history, [id |-> <<"seg_", k>>, sequence_id |-> k])]_vars

\* The worker pool completed chunk 1 before chunk 0 and the history lists
\* them in that order.
C24_Witness ==
    /\ Len(get_transcript_history) = 2
    /\ get_transcript_history[1].sequence_id = 1
    /\ get_transcript_history[2].id = <<"seg_", 0>>

\* C25: a start that makes a session active leaves the speech-detected latch
\* clear, and the latch is still clear when the workers process the first
\* chunk of that session.
C25_LatchClearAtFirstChunk ==
    [][/\ \A c \in StartCalls, e \in BOOLEAN :
             start_recording_commit(c, e) => ~SPEECH_DETECTED_EMITTED'
       /\ \A s \in Sids, k \in 0..(MaxPipelineChunks - 1) :
             (transcribe_chunk(s, k) /\ worker[s].processed = {}) =>
                 ~SPEECH_DETECTED_EMITTED]_vars

\* C26: when a stop call returns the error of stop_streams_and_force_flush,
\* the manager it found stored is stored again and not dropped, the recording
\* flag is still set and the transcription task handle is still stored.
C26_FailedStopChangesNothing ==
    [][\A c \in StopCalls :
          stop_recording_streams_failed(c) =>
              /\ resp'.res = "StopStreamsFailed"
              /\ IS_RECORDING'
              /\ TRANSCRIPTION_TASK' = TRANSCRIPTION_TASK /\ TRANSCRIPTION_TASK' # None
              /\ RECORDING_MANAGER' = stopMgr[c]
              /\ ~session'[stopMgr[c]].dropped]_vars

\* No start call and no stop call is in progress.
NoCallInProgress ==
    /\ \A c \in StartCalls : startPc[c] = "idle"
    /\ \A c \in StopCalls : stopPc[c] = "idle"

\* C27: a paused session is a recording session, and while no start or stop
\* call is in progress a manager is stored exactly if the recording flag is set.
C27_FlagAndManagerAgree ==
    /\ is_recording_paused => is_recording
    /\ NoCallInProgress => (RECORDING_MANAGER # None <=> is_recording)

\* C28: the recording flag of a session stays set while a stop call holds the
\* session's manager, that is until its save_recording_only has finished; the
\* flag is cleared only by a stop call in its last step, and it is clear when
\* that step has emitted 'complete' and recording-stopped.
C28_FlagSetUntilSaved ==
    /\ [](\A c \in StopCalls : (stopPc[c] # "idle" /\ stopMgr[c] # None) => is_recording)
    /\ [][/\ (is_recording /\ ~is_recording') => \E c \in StopCalls : StopCompletes(c)
          /\ \A c \in StopCalls : StopCompletes(c) => ~is_recording']_vars

\* C29: a start call that returns an error leaves the recording flag clear and
\* leaves no manager and no transcription task of its own stored.
C29_FailedStartLeavesNoSession ==
    [][\A c \in StartCalls :
          (startPc[c] = "init" /\ startPc'[c] = "idle"
              /\ resp'.op = "start" /\ resp'.res # "Ok") =>
                 /\ ~is_recording'
                 /\ RECORDING_MANAGER' = RECORDING_MANAGER
                 /\ TRANSCRIPTION_TASK' = TRANSCRIPTION_TASK]_vars

\* C30: a pause or resume call issued while a stop call is in progress returns
\* an error, emits no acknowledgement and changes no session, in particular
\* not the one whose manager the stop call holds.
C30_PauseResumeRefusedDuringStop ==
    [][\A e \in BOOLEAN :
          ((pause_recording(e) \/ resume_recording(e))
              /\ \E c \in StopCalls : stopPc[c] # "idle") =>
                 /\ resp'.res \in {"NotRecording", "NoManager"}
                 /\ resp'.events = <<>>
                 /\ session' = session]_vars

\* C31: once a stop call has returned success and no start call has begun
\* since, the flag is false and no manager is stored, and every later step
\* keeps it so, also when a start call was initialising while the stop ran.
C31_StoppedAfterSuccessfulStop ==
    /\ [](resp.op = "stop" /\ resp.res = "Ok" =>
             ~IS_RECORDING /\ RECORDING_MANAGER = None)
    /\ [][resp.op = "stop" /\ resp.res = "Ok" =>
             ~IS_RECORDING' /\ RECORDING_MANAGER' = None]_vars

\* C32: a stop call made while the flag is false returns success with no
\* notification and changes nothing: not the flag, the stored manager, the
\* stored task, any session or any stop call's state.
C32_StopWhileNotRecordingIsNoOp ==
    [][\A c \in StopCalls :
          (stop_recording_begin(c) /\ ~IS_RECORDING) =>
             /\ resp' = Response("stop", "Ok", <<>>)
             /\ UNCHANGED <<globals, session, worker, listeners, stopVars, startPc>>]_vars

\* A stop call returned at once in a state where the flag was false while a
\* manager and a task were stored, and both are still stored.
C32_Witness ==
    /\ resp = Response("stop", "Ok", <<>>)
    /\ ~IS_RECORDING
    /\ RECORDING_MANAGER # None
    /\ TRANSCRIPTION_TASK # None

\* A click on the tray menu is handled.
TrayActionIssued ==
    \/ toggle_recording_handler
    \/ pause_recording_handler
    \/ resume_recording_handler
    \/ stop_recording_handler

\* C33: if from some point on no tray action is issued, then from some point
\* on the tray shows the menu of the state get_current_recording_state
\* reports, which is never a transitional one.
C33_TrayEventuallyConsistent ==
    <>[][~TrayActionIssued]_vars =>
        <>[](trayMenu = build_menu(get_current_recording_state))

\* C34: get_current_recording_state reports Stopped exactly when the flag is
\* false, Paused when recording and paused, and Recording otherwise; the menu
\* of a state offers start only in Stopped, pause only in Recording, resume
\* only in Paused, stop only in Recording, Pausing, Paused and Resuming, and
\* nothing of these in Starting and Stopping; the menu shown never offers
\* pause and resume together.
C34_StateReportAndMenu ==
    /\ (get_current_recording_state = "Stopped") <=> ~is_recording
    /\ is_recording /\ is_recording_paused => get_current_recording_state = "Paused"
    /\ is_recording /\ ~is_recording_paused => get_current_recording_state = "Recording"
    /\ \A state \in RecordingState :
          LET offered == EnabledItems(build_menu(state)) IN
          /\ "toggle_recording" \in offered => state = "Stopped"
          /\ "pause_recording" \in offered => state = "Recording"
          /\ "resume_recording" \in offered => state = "Paused"
          /\ "stop_recording" \in offered =>
                state \in {"Recording", "Pausing", "Paused", "Resuming"}
          /\ state \in {"Starting", "Stopping"} =>
                offered \cap {"toggle_recording", "pause_recording",
                              "resume_recording", "stop_recording"} = {}
    /\ ~({"pause_recording", "resume_recording"} \subseteq EnabledItems(trayMenu))

\* A paused recording whose menu, rebuilt from the reported state, offers
\* resume and stop.
C34_Witness ==
    /\ is_recording
    /\ is_recording_paused
    /\ trayMenu = build_menu(get_current_recording_state)
    /\ EnabledItems(trayMenu) \cap {"toggle_recording", "pause_recording",
                                     "resume_recording", "stop_recording"}
          = {"resume_recording", "stop_recording"}

\* C35: with no manager stored the queries answer neutrally: not paused, a
\* state report with is_paused and is_active false, null durations and total
\* pause 0, no meeting folder, no meeting name, an empty history, not
\* reconnecting and no device; only is_recording follows the flag; and a poll
\* returns None and changes nothing.
C35_QueriesNeutralWithoutManager ==
    /\ [](RECORDING_MANAGER = None =>
             /\ is_recording_paused = FALSE
             /\ get_recording_state =
                   [is_recording |-> IS_RECORDING, is_paused |-> FALSE,
                    is_active |-> FALSE, recording_duration |-> Null,
                    active_duration |-> Null, total_pause_duration |-> 0,
                    current_pause_duration |-> Null]
             /\ get_meeting_folder_path = {}
             /\ get_recording_meeting_name = {}
             /\ get_transcript_history = <<>>
             /\ get_reconnection_status =
                   [is_reconnecting |-> FALSE, disconnected_device |-> {}])
    /\ [][poll_audio_device_events /\ RECORDING_MANAGER = None =>
             /\ resp' = PollResponse({})
             /\ UNCHANGED <<globals, session, worker, lock, stopVars, reconnectVars>>]_vars

\* A poll answered None while the flag is set and the manager, taken by a stop
\* call, has a disconnected device and a queued event.
C35_Witness ==
    /\ RECORDING_MANAGER = None
    /\ IS_RECORDING
    /\ resp = PollResponse({})
    /\ \E c \in StopCalls :
          /\ stopMgr[c] # None
          /\ session[stopMgr[c]].disconnected_device # {}
          /\ session[stopMgr[c]].deviceEvents # <<>>

\* C36: a start whose preferences fail to load is not aborted by that: it
\* stores a started manager with auto_save set, raises the flag, and returns
\* Ok unless the recording-started notification cannot be emitted.
C36_PreferencesFailureDoesNotAbortStart ==
    [][\A c \in StartCalls, e \in BOOLEAN :
          start_recording_commit_with_preferences(c, e, {}) =>
             /\ RECORDING_MANAGER' = nextSid
             /\ session'[nextSid].started
             /\ session'[nextSid].auto_save = TRUE
             /\ IS_RECORDING'
             /\ resp'.res = (IF e THEN "Ok" ELSE "EmitError")]_vars

\* A start returned Ok for the stored session, whose preferences had failed
\* to load and which runs with auto_save set.
C36_Witness ==
    /\ resp = Response("start", "Ok", <<"recording-started">>)
    /\ RECORDING_MANAGER # None
    /\ session[RECORDING_MANAGER].preferences_warning
    /\ session[RECORDING_MANAGER].auto_save
    /\ IS_RECORDING
====
